---- MODULE Spec2Model ----
(***************************************************************************)
(* A model of the two utilities of school-ai.api and of the knowledge-     *)
(* point identifier generator:                                             *)
(*   - OpenAIHelper.allocate_marks_and_generate_blueprint                  *)
(*       (src/services/openai_helper.py)                                   *)
(*   - JSONParser (src/utils/json_parser.py)                               *)
(*   - OpenAIService._generate_deterministic_kp_id and                     *)
(*     OpenAIService._post_process_knowledge_points                        *)
(*       (src/services/openai_service.py)                                  *)
(* The utilities are stateless functions.  Each specification draws the    *)
(* arguments of a call in its initial state and its actions run the call.  *)
(* Text is a sequence of one-character strings.                            *)
(***************************************************************************)
EXTENDS Integers, Sequences, FiniteSets, TLC

VARIABLES
    pc,     \* "call": arguments drawn, the call not yet run; "done": it returned
    op,     \* the function being called
    args,   \* the arguments of the call
    ret,    \* what the call returned (or the exception it raised)
    prev,   \* the arguments and result of the preceding call (SpecKP)
    locals, \* the local variables of the running call
    origin  \* how the text handed to the call was made (a record of the draw)

vars == <<pc, op, args, ret, prev, locals, origin>>

\* Python's None.
None == [t |-> "none"]

NoCall == [op |-> "none"]

NoLocals == [json_content |-> None, cleaned_json |-> None, attempts |-> 0]

NoOrigin == [kind |-> "none"]

(***************************************************************************)
(* Text: Python str values are sequences of one-character strings.         *)
(***************************************************************************)

\* str.strip() and the pattern \s: of the characters drawn, the blank and
\* the line break.
Whitespace == {" ", "\n"}

\* The grave accent, U+0060, which a TLA+ string cannot hold.
Backtick == "BACKTICK"

Fence == <<Backtick, Backtick, Backtick>>

JsonTag == <<"j", "s", "o", "n">>

\* s[i - 1 : i - 1 + len(t)] == t, i counted from 1
MatchAt(s, i, t) ==
    /\ i >= 1
    /\ i + Len(t) - 1 <= Len(s)
    /\ \A k \in 1 .. Len(t) : s[i + k - 1] = t[k]

\* s[i - 1 : i], the empty string past the end
CharAt(s, i) == IF i \in 1 .. Len(s) THEN s[i] ELSE ""

\* The smallest index >= i at which t occurs in s; 0 when there is none.
Find(s, t, i) ==
    LET places == i .. (Len(s) - Len(t) + 1)
    IN  IF \E j \in places : MatchAt(s, j, t)
        THEN CHOOSE j \in places :
                MatchAt(s, j, t) /\ \A k \in i .. (j - 1) : ~MatchAt(s, k, t)
        ELSE 0

RECURSIVE SkipWs(_, _)
\* The index of the first character at or after i that is not whitespace.
SkipWs(s, i) ==
    IF i <= Len(s) /\ s[i] \in Whitespace THEN SkipWs(s, i + 1) ELSE i

RECURSIVE BackWs(_, _, _)
\* The smallest k >= lo with s[k .. j - 1] all whitespace.
BackWs(s, j, lo) ==
    IF j > lo /\ s[j - 1] \in Whitespace THEN BackWs(s, j - 1, lo) ELSE j

\* str.strip()
strip(s) ==
    LET a == SkipWs(s, 1)
        b == BackWs(s, Len(s) + 1, a)
    IN  SubSeq(s, a, b - 1)

(***************************************************************************)
(* Python values.  A dict is a function from its keys (texts) to values.   *)
(***************************************************************************)

PyStr(chars) == [t |-> "str", v |-> chars]
PyInt(n) == [t |-> "int", v |-> n]
PyBool(b) == [t |-> "bool", v |-> b]
PyList(items) == [t |-> "list", v |-> items]
PyDict(f) == [t |-> "dict", v |-> f]

EmptyDict == [k \in {} |-> None]

\* d[key] = val
Put(f, key, val) ==
    [k \in DOMAIN f \cup {key} |-> IF k = key THEN val ELSE f[k]]

RECURSIVE SumOver(_, _)
\* sum(f[x] for x in S)
SumOver(S, f) ==
    IF S = {} THEN 0
    ELSE LET x == CHOOSE y \in S : TRUE IN f[x] + SumOver(S \ {x}, f)

\* A construct of Python the model does not cover: evaluating it stops TLC.
Unsupported == CHOOSE x \in {} : TRUE

(***************************************************************************)
(* json.loads, as json.decoder and json.scanner compute it, for texts      *)
(* without backslash escapes, fractions, exponents and signs.              *)
(***************************************************************************)

Ok(v, e) == [ok |-> TRUE, val |-> v, end |-> e]
Err(m) == [ok |-> FALSE, msg |-> m]

DigitValue ==
    ("0" :> 0) @@ ("1" :> 1) @@ ("2" :> 2) @@ ("3" :> 3) @@ ("4" :> 4) @@
    ("5" :> 5) @@ ("6" :> 6) @@ ("7" :> 7) @@ ("8" :> 8) @@ ("9" :> 9)

IsDigit(c) == c \in DOMAIN DigitValue

RECURSIVE DigitsEnd(_, _)
DigitsEnd(s, i) == IF IsDigit(CharAt(s, i)) THEN DigitsEnd(s, i + 1) ELSE i

RECURSIVE DigitsValue(_, _, _, _)
DigitsValue(s, i, e, acc) ==
    IF i >= e THEN acc ELSE DigitsValue(s, i + 1, e, 10 * acc + DigitValue[s[i]])

\* NUMBER_RE = (-?(?:0|[1-9]\d*))(\.\d+)?([eE][-+]?\d+)? at a digit
scan_number(s, i) ==
    LET e == IF s[i] = "0" THEN i + 1 ELSE DigitsEnd(s, i)
    IN  IF \/ (CharAt(s, e) = "." /\ IsDigit(CharAt(s, e + 1)))
           \/ (CharAt(s, e) \in {"e", "E"} /\ (IsDigit(CharAt(s, e + 1))
                                              \/ CharAt(s, e + 1) \in {"+", "-"}))
        THEN Unsupported
        ELSE Ok(PyInt(DigitsValue(s, i, e, 0)), e)

RECURSIVE StringEnd(_, _)
\* The index of the character that ends the chunk of a string's plain
\* characters begun at i; 0 when the text ends first.
StringEnd(s, i) ==
    IF i > Len(s) THEN 0
    ELSE IF s[i] \in {"\"", "\\", "\n"} THEN i
    ELSE StringEnd(s, i + 1)

\* py_scanstring(s, end), strict, end being the index after the opening quote
scanstring(s, i) ==
    LET e == StringEnd(s, i)
    IN  IF e = 0 THEN Err("Unterminated string starting at")
        ELSE IF s[e] = "\"" THEN Ok(PyStr(SubSeq(s, i, e - 1)), e + 1)
        ELSE IF s[e] = "\n" THEN Err("Invalid control character at")
        ELSE Unsupported

RECURSIVE scan_once(_, _), ObjectMembers(_, _, _), ArrayItems(_, _, _)

\* The loop of JSONObject, at the opening quote of a key.
ObjectMembers(s, i, acc) ==
    LET k == scanstring(s, i + 1)
    IN  IF ~k.ok THEN k
        ELSE LET c == SkipWs(s, k.end)
             IN  IF CharAt(s, c) # ":" THEN Err("Expecting ':' delimiter")
                 ELSE LET v == scan_once(s, SkipWs(s, c + 1))
                      IN  IF ~v.ok THEN v
                          ELSE LET d == SkipWs(s, v.end)
                                   pairs == Put(acc, k.val.v, v.val)
                                   n == SkipWs(s, d + 1)
                               IN  IF CharAt(s, d) = "}" THEN Ok(PyDict(pairs), d + 1)
                                   ELSE IF CharAt(s, d) # ","
                                   THEN Err("Expecting ',' delimiter")
                                   ELSE IF CharAt(s, n) # "\""
                                   THEN Err("Expecting property name enclosed in double quotes")
                                   ELSE ObjectMembers(s, n, pairs)

\* JSONObject((s, end)), end being the index after the opening brace
JSONObject(s, i) ==
    LET n == SkipWs(s, i)
    IN  IF CharAt(s, n) = "}" THEN Ok(PyDict(EmptyDict), n + 1)
        ELSE IF CharAt(s, n) # "\""
        THEN Err("Expecting property name enclosed in double quotes")
        ELSE ObjectMembers(s, n, EmptyDict)

\* The loop of JSONArray, at the start of an item.
ArrayItems(s, i, acc) ==
    LET v == scan_once(s, i)
    IN  IF ~v.ok THEN v
        ELSE LET d == SkipWs(s, v.end)
                 values == Append(acc, v.val)
             IN  IF CharAt(s, d) = "]" THEN Ok(PyList(values), d + 1)
                 ELSE IF CharAt(s, d) # "," THEN Err("Expecting ',' delimiter")
                 ELSE ArrayItems(s, SkipWs(s, d + 1), values)

\* JSONArray((s, end)), end being the index after the opening bracket
JSONArray(s, i) ==
    LET n == SkipWs(s, i)
    IN  IF CharAt(s, n) = "]" THEN Ok(PyList(<<>>), n + 1)
        ELSE ArrayItems(s, n, <<>>)

\* json.scanner.py_make_scanner's _scan_once; StopIteration is reported by
\* its callers as "Expecting value".
scan_once(s, i) ==
    LET c == CharAt(s, i)
    IN  CASE c = "\"" -> scanstring(s, i + 1)
          [] c = "{" -> JSONObject(s, i + 1)
          [] c = "[" -> JSONArray(s, i + 1)
          [] c = "n" /\ MatchAt(s, i, <<"n", "u", "l", "l">>) -> Ok(None, i + 4)
          [] c = "t" /\ MatchAt(s, i, <<"t", "r", "u", "e">>) -> Ok(PyBool(TRUE), i + 4)
          [] c = "f" /\ MatchAt(s, i, <<"f", "a", "l", "s", "e">>) -> Ok(PyBool(FALSE), i + 5)
          [] IsDigit(c) -> scan_number(s, i)
          [] c \in {"N", "I", "-"} -> Unsupported
          [] OTHER -> Err("Expecting value")

\* json.loads(s): JSONDecoder.decode
json_loads(s) ==
    LET r == scan_once(s, SkipWs(s, 1))
    IN  IF ~r.ok THEN r
        ELSE IF SkipWs(s, r.end) # Len(s) + 1 THEN Err("Extra data")
        ELSE r

(***************************************************************************)
(* JSONParser (src/utils/json_parser.py)                                   *)
(***************************************************************************)

Returned(v) == [raised |-> FALSE, value |-> v]
Raised(e) == [raised |-> TRUE, exc |-> e]

\* The (success, parsed_data, error_message) tuple.
Triple(success, data, error) == [success |-> success, data |-> data, error |-> error]

\* An error message: its fixed text, and the text of the exception after it.
Message(text, detail) == [t |-> "str", text |-> text, detail |-> detail]

\* A slip: the guard of line 20 without its test for emptiness.
Truthy_of_anything(x) == TRUE

\* bool(x)
Truthy(x) ==
    CASE x.t = "none" -> FALSE
      [] x.t = "bool" -> x.v
      [] x.t = "int" -> x.v # 0
      [] x.t = "str" -> x.v # <<>>
      [] x.t = "list" -> x.v # <<>>
      [] x.t = "dict" -> DOMAIN x.v # {}

\* A slip: the pattern's group is greedy, (.*), and runs to the last fence.
RECURSIVE FindLast(_, _, _)
FindLast(s, t, i) ==
    LET j == Find(s, t, i)
    IN  IF j = 0 THEN 0
        ELSE LET k == FindLast(s, t, j + 1) IN IF k = 0 THEN j ELSE k

fence_search_greedy(s) ==
    LET i == Find(s, Fence, 1)
        a == IF MatchAt(s, i + Len(Fence), JsonTag)
             THEN i + Len(Fence) + Len(JsonTag)
             ELSE i + Len(Fence)
        p == SkipWs(s, a)
        j == IF i = 0 THEN 0 ELSE FindLast(s, Fence, p)
    IN  IF i = 0 \/ j = 0 THEN [found |-> FALSE]
        ELSE [found |-> TRUE, group |-> SubSeq(s, p, BackWs(s, j, p) - 1)]

\* re.search(FENCE (?:json)?\s*(.*?)\s* FENCE, raw_content, re.DOTALL), FENCE
\* being three grave accents: the leftmost match and its group(1).  The
\* match starts at the first fence; the tag and the whitespace after it are
\* taken greedily; the lazy group ends before the whitespace that precedes
\* the next fence.
fence_search(s) ==
    LET i == Find(s, Fence, 1)
        a == IF MatchAt(s, i + Len(Fence), JsonTag)
             THEN i + Len(Fence) + Len(JsonTag)
             ELSE i + Len(Fence)
        p == SkipWs(s, a)
        j == IF i = 0 THEN 0 ELSE Find(s, Fence, p)
    IN  IF i = 0 \/ j = 0 THEN [found |-> FALSE]
        ELSE [found |-> TRUE, group |-> SubSeq(s, p, BackWs(s, j, p) - 1)]

\* json_content, lines 27-32
extract_candidate(raw) ==
    LET json_match == fence_search(raw)
    IN  IF json_match.found THEN strip(json_match.group) ELSE strip(raw)

RECURSIVE sub_trailing_comma(_, _, _)
\* re.sub(r',\s*}', '}', s) and re.sub(r',\s*]', ']', s), from index i on
sub_trailing_comma(s, i, closer) ==
    IF i > Len(s) THEN <<>>
    ELSE LET n == SkipWs(s, i + 1)
         IN  IF s[i] = "," /\ CharAt(s, n) = closer
             THEN <<closer>> \o sub_trailing_comma(s, n + 1, closer)
             ELSE <<s[i]>> \o sub_trailing_comma(s, i + 1, closer)

RECURSIVE sub_line_comments(_, _)
\* re.sub(r'//.*?$', '', s, flags=re.MULTILINE), from index i on
sub_line_comments(s, i) ==
    IF i > Len(s) THEN <<>>
    ELSE IF MatchAt(s, i, <<"/", "/">>)
    THEN LET n == Find(s, <<"\n">>, i + 2)
         IN  IF n = 0 THEN <<>> ELSE sub_line_comments(s, n)
    ELSE <<s[i]>> \o sub_line_comments(s, i + 1)

RECURSIVE sub_block_comments(_, _)
\* re.sub(r'/\*.*?\*/', '', s, flags=re.DOTALL), from index i on
sub_block_comments(s, i) ==
    IF i > Len(s) THEN <<>>
    ELSE LET n == Find(s, <<"*", "/">>, i + 2)
         IN  IF MatchAt(s, i, <<"/", "*">>) /\ n # 0
             THEN sub_block_comments(s, n + 2)
             ELSE <<s[i]>> \o sub_block_comments(s, i + 1)

_clean_json_content(json_content) ==
    LET braces == sub_trailing_comma(json_content, 1, "}")
        brackets == sub_trailing_comma(braces, 1, "]")
        lines == sub_line_comments(brackets, 1)
    IN  sub_block_comments(lines, 1)

\* A slip: {**dict2, **dict1}, the metadata overwriting the parsed keys.
merge_dicts_first_wins(dict1, dict2) ==
    IF dict1.t # "dict" \/ dict2.t # "dict" THEN Raised("TypeError")
    ELSE Returned(PyDict([k \in DOMAIN dict1.v \cup DOMAIN dict2.v |->
            IF k \in DOMAIN dict1.v THEN dict1.v[k] ELSE dict2.v[k]]))

\* {**dict1, **dict2}: a TypeError unless both are mappings
merge_dicts(dict1, dict2) ==
    IF dict1.t # "dict" \/ dict2.t # "dict" THEN Raised("TypeError")
    ELSE Returned(PyDict([k \in DOMAIN dict1.v \cup DOMAIN dict2.v |->
            IF k \in DOMAIN dict2.v THEN dict2.v[k] ELSE dict1.v[k]]))

\* The text of a key of the question paper.
KeySections == <<"s", "e", "c", "t", "i", "o", "n", "s">>
KeyQuestions == <<"q", "u", "e", "s", "t", "i", "o", "n", "s">>
KeyMarks == <<"m", "a", "r", "k", "s">>
KeySubQuestions == <<"s", "u", "b", "Q", "u", "e", "s", "t", "i", "o", "n", "s">>
KeyTotalMarks == <<"t", "o", "t", "a", "l", "M", "a", "r", "k", "s">>

RECURSIVE SetToSeq(_)
SetToSeq(S) ==
    IF S = {} THEN <<>>
    ELSE LET x == CHOOSE y \in S : TRUE IN <<x>> \o SetToSeq(S \ {x})

\* key in container, key a text: membership of a dict's keys or a list's
\* items, a substring test on a str, a TypeError on anything else
py_in(key, container) ==
    CASE container.t = "dict" -> Returned(key \in DOMAIN container.v)
      [] container.t = "list" ->
            Returned(\E i \in 1 .. Len(container.v) : container.v[i] = PyStr(key))
      [] container.t = "str" -> Returned(Find(container.v, key, 1) # 0)
      [] OTHER -> Raised("TypeError")

\* container[key], key a text that is in container
py_getitem(container, key) ==
    IF container.t = "dict" THEN Returned(container.v[key]) ELSE Raised("TypeError")

\* for x in container: the items iterated, or a TypeError
py_iter(container) ==
    CASE container.t = "list" -> Returned(container.v)
      [] container.t = "dict" ->
            Returned([i \in 1 .. Cardinality(DOMAIN container.v) |->
                        PyStr(SetToSeq(DOMAIN container.v)[i])])
      [] container.t = "str" ->
            Returned([i \in 1 .. Len(container.v) |-> PyStr(<<container.v[i]>>)])
      [] OTHER -> Raised("TypeError")

\* total += x, total an int
py_add(total, x) ==
    CASE x.t = "int" -> Returned(total + x.v)
      [] x.t = "bool" -> Returned(total + (IF x.v THEN 1 ELSE 0))
      [] OTHER -> Raised("TypeError")

\* if 'marks' in q: total += q['marks']            (lines 122-123, 128-129)
add_marks_of(q, total) ==
    LET has == py_in(KeyMarks, q)
    IN  IF has.raised THEN has
        ELSE IF ~has.value THEN Returned(total)
        ELSE LET m == py_getitem(q, KeyMarks)
             IN  IF m.raised THEN m ELSE py_add(total, m.value)

RECURSIVE add_sub_questions(_, _, _)
\* for sub_q in question['subQuestions']: ...     (lines 127-129)
add_sub_questions(subs, i, total) ==
    IF i > Len(subs) THEN Returned(total)
    ELSE LET r == add_marks_of(subs[i], total)
         IN  IF r.raised THEN r ELSE add_sub_questions(subs, i + 1, r.value)

\* A slip: the sub-questions of a case-based question are not counted.
add_question_without_subs(question, total) ==
    add_marks_of(question, total)

\* The body of the loop over a section's questions (lines 121-129).
add_question(question, total) ==
    LET own == add_marks_of(question, total)
    IN  IF own.raised THEN own
        ELSE LET has == py_in(KeySubQuestions, question)
             IN  IF has.raised THEN has
                 ELSE IF ~has.value THEN own
                 ELSE LET subs == py_getitem(question, KeySubQuestions)
                      IN  IF subs.raised THEN subs
                          ELSE IF subs.value.t # "list" THEN own
                          ELSE add_sub_questions(subs.value.v, 1, own.value)

RECURSIVE add_questions(_, _, _)
add_questions(questions, i, total) ==
    IF i > Len(questions) THEN Returned(total)
    ELSE LET r == add_question(questions[i], total)
         IN  IF r.raised THEN r ELSE add_questions(questions, i + 1, r.value)

_calculate_section_marks(section) ==
    LET has == py_in(KeyQuestions, section)
    IN  IF has.raised THEN has
        ELSE IF ~has.value THEN Returned(0)
        ELSE LET qs == py_getitem(section, KeyQuestions)
             IN  IF qs.raised THEN qs
                 ELSE IF qs.value.t # "list" THEN Returned(0)
                 ELSE add_questions(qs.value.v, 1, 0)

\* section['totalMarks'] = total_marks
set_total_marks(section, total_marks) ==
    IF section.t = "dict"
    THEN Returned(PyDict(Put(section.v, KeyTotalMarks, PyInt(total_marks))))
    ELSE Raised("TypeError")

RECURSIVE total_sections(_, _)
\* for section in parsed_data['sections']: ...    (lines 100-102); the
\* sections as the loop leaves them, from index i on
total_sections(sections, i) ==
    IF i > Len(sections) THEN Returned(<<>>)
    ELSE LET total == _calculate_section_marks(sections[i])
         IN  IF total.raised THEN total
             ELSE LET section == set_total_marks(sections[i], total.value)
                  IN  IF section.raised THEN section
                      ELSE LET rest == total_sections(sections, i + 1)
                           IN  IF rest.raised THEN rest
                               ELSE Returned(<<section.value>> \o rest.value)

\* Lines 98-104 of parse_questions, given what extract_json_from_response
\* returned.  The sections are objects of the parsed data, changed in
\* place: a list of them stays the list it was, with its items changed.
parse_questions_post(triple) ==
    LET data == triple.data
    IN  IF ~(triple.success /\ data.t = "dict" /\ KeySections \in DOMAIN data.v)
        THEN Returned(triple)
        ELSE LET sections == data.v[KeySections]
                 items == py_iter(sections)
             IN  IF items.raised THEN items
                 ELSE LET done == total_sections(items.value, 1)
                      IN  IF done.raised THEN done
                          ELSE IF sections.t # "list" THEN Returned(triple)
                          ELSE Returned([triple EXCEPT !.data =
                                    PyDict(Put(data.v, KeySections, PyList(done.value)))])

\* The value returned when both parse attempts failed (lines 53 and 57).
\* A slip: the extracted candidate is handed back in place of the raw text.
failure_value_candidate(raw_content, json_content, fallback_to_raw) ==
    IF fallback_to_raw THEN json_content ELSE None

failure_value(raw_content, json_content, fallback_to_raw) ==
    IF fallback_to_raw THEN raw_content ELSE None

\* A slip: the failure of the parse is reported without its message.
except_JSONDecodeError_silent(msg, raw_content, json_content, fallback_to_raw) ==
    Returned(Triple(FALSE,
                    failure_value(raw_content, json_content, fallback_to_raw),
                    None))

\* except json.JSONDecodeError as e          (lines 51-53)
except_JSONDecodeError(msg, raw_content, json_content, fallback_to_raw) ==
    Returned(Triple(FALSE,
                    failure_value(raw_content, json_content, fallback_to_raw),
                    Message("JSON parsing failed: ", msg)))

\* A slip: no handler for the other exceptions, which reach the caller.
except_Exception_missing(exc, raw_content, json_content, fallback_to_raw) ==
    Raised(exc)

\* except Exception as e                     (lines 55-57)
except_Exception(exc, raw_content, json_content, fallback_to_raw) ==
    Returned(Triple(FALSE,
                    failure_value(raw_content, json_content, fallback_to_raw),
                    Message("Unexpected error during JSON parsing: ", exc)))

\* return True, parsed_data if result_metadata is None else
\*        JSONParser.merge_dicts(result_metadata, parsed_data), None
\* (lines 43 and 49), inside the outer try
return_parsed(parsed_data, call, json_content) ==
    IF call.result_metadata = None
    THEN Returned(Triple(TRUE, parsed_data, None))
    ELSE LET merged == merge_dicts(call.result_metadata, parsed_data)
         IN  IF merged.raised
             THEN except_Exception(merged.exc, call.raw_content, json_content,
                                   call.fallback_to_raw)
             ELSE Returned(Triple(TRUE, merged.value, None))

JsonOps == {"extract_json_from_response", "parse_questions"}

\* The call of extract_json_from_response that is running: the caller's own,
\* or the one parse_questions makes (lines 94-96).
Call ==
    IF op = "parse_questions"
    THEN [raw_content |-> args.raw_content,
          result_metadata |-> args.request_metadata,
          parse |-> TRUE,
          fallback_to_raw |-> TRUE]
    ELSE args

\* Where control goes when extract_json_from_response is left with result r.
AfterExtract(r) ==
    IF op = "parse_questions" /\ ~r.raised THEN "post" ELSE "done"

\* Lines 20-36: the guard on raw_content and the extraction of the candidate.
ExtractCandidate ==
    /\ pc = "call"
    /\ op \in JsonOps
    /\ LET raw == Call.raw_content
           invalid == Returned(IF Call.parse
                               THEN Triple(FALSE, None,
                                           Message("Empty or invalid content provided", ""))
                               ELSE PyStr(<<>>))
           json_content == PyStr(extract_candidate(raw.v))
       IN  IF ~Truthy(raw) \/ raw.t # "str"
           THEN /\ ret' = invalid
                /\ pc' = AfterExtract(invalid)
                /\ UNCHANGED locals
           ELSE /\ locals' = [locals EXCEPT !.json_content = json_content]
                /\ IF Call.parse
                   THEN pc' = "parse" /\ UNCHANGED ret
                   ELSE ret' = Returned(json_content) /\ pc' = AfterExtract(ret')
    /\ UNCHANGED <<op, args, prev, origin>>

\* A slip: the cleanup is applied before the first parse.
ParseAsIs_after_cleanup ==
    /\ pc = "parse"
    /\ LET r == json_loads(_clean_json_content(locals.json_content.v))
           out == return_parsed(r.val, Call, locals.json_content)
       IN  /\ locals' = [locals EXCEPT !.attempts = 1]
           /\ IF r.ok
              THEN ret' = out /\ pc' = AfterExtract(out)
              ELSE pc' = "cleanup" /\ UNCHANGED ret
    /\ UNCHANGED <<op, args, prev, origin>>

\* Lines 41-45: the candidate parsed as it is.
ParseAsIs ==
    /\ pc = "parse"
    /\ LET r == json_loads(locals.json_content.v)
           out == return_parsed(r.val, Call, locals.json_content)
       IN  /\ locals' = [locals EXCEPT !.attempts = 1]
           /\ IF r.ok
              THEN ret' = out /\ pc' = AfterExtract(out)
              ELSE pc' = "cleanup" /\ UNCHANGED ret
    /\ UNCHANGED <<op, args, prev, origin>>

\* Lines 46-57: the cleanup, the second parse and the handlers.
CleanAndRetry ==
    /\ pc = "cleanup"
    /\ LET cleaned_json == _clean_json_content(locals.json_content.v)
           r == json_loads(cleaned_json)
           out == IF r.ok
                  THEN return_parsed(r.val, Call, locals.json_content)
                  ELSE except_JSONDecodeError(r.msg, Call.raw_content,
                                              locals.json_content, Call.fallback_to_raw)
       IN  /\ locals' = [locals EXCEPT !.attempts = 2,
                                       !.cleaned_json = PyStr(cleaned_json)]
           /\ ret' = out
           /\ pc' = AfterExtract(out)
    /\ UNCHANGED <<op, args, prev, origin>>

\* Lines 98-104 of parse_questions.
TotalSections ==
    /\ pc = "post"
    /\ op = "parse_questions"
    /\ ret' = parse_questions_post(ret.value)
    /\ pc' = "done"
    /\ UNCHANGED <<op, args, prev, locals, origin>>

(***************************************************************************)
(* The calls drawn for JSONParser.                                         *)
(***************************************************************************)

\* The longest list among the JSON values drawn.
MaxItems == 2

\* The most questions in a section of the question papers drawn.
MaxQuestions == 2

DigitChar == <<"0", "1", "2", "3", "4", "5", "6", "7", "8", "9">>

RECURSIVE IntText(_)
\* str(n), n >= 0
IntText(n) ==
    IF n < 10 THEN <<DigitChar[n + 1]>>
    ELSE IntText(n \div 10) \o <<DigitChar[(n % 10) + 1]>>

RECURSIVE json_dumps(_), dumps_items(_, _), dumps_members(_, _, _)

\* json.dumps(v) with its default separators, for texts that need no escape
json_dumps(v) ==
    CASE v.t = "none" -> <<"n", "u", "l", "l">>
      [] v.t = "bool" -> IF v.v THEN <<"t", "r", "u", "e">>
                         ELSE <<"f", "a", "l", "s", "e">>
      [] v.t = "int" -> IntText(v.v)
      [] v.t = "str" -> <<"\"">> \o v.v \o <<"\"">>
      [] v.t = "list" -> <<"[">> \o dumps_items(v.v, 1) \o <<"]">>
      [] v.t = "dict" -> <<"{">> \o dumps_members(v.v, SetToSeq(DOMAIN v.v), 1) \o <<"}">>

dumps_items(items, i) ==
    IF i > Len(items) THEN <<>>
    ELSE (IF i > 1 THEN <<",", " ">> ELSE <<>>)
            \o json_dumps(items[i]) \o dumps_items(items, i + 1)

dumps_members(f, keys, i) ==
    IF i > Len(keys) THEN <<>>
    ELSE (IF i > 1 THEN <<",", " ">> ELSE <<>>)
            \o <<"\"">> \o keys[i] \o <<"\"", ":", " ">>
            \o json_dumps(f[keys[i]]) \o dumps_members(f, keys, i + 1)

\* The texts of the string values drawn: plain, empty, a fence, a comma
\* before a closing brace, and the two comment forms.
Texts ==
    { <<"a">>, <<>>, Fence, <<"b", ",", "}">>, <<"/", "/", "a">>,
      <<"/", "*", "a", "*", "/">> }

Scalars ==
    {None, PyBool(TRUE), PyBool(FALSE), PyInt(1), PyInt(20)}
        \cup {PyStr(x) : x \in Texts}

\* The items of the lists and the values of the objects drawn.
Items ==
    {None, PyInt(1), PyStr(<<"a">>), PyStr(Fence), PyStr(<<"b", ",", "}">>),
     PyStr(<<"/", "/", "a">>)}

Keys == { <<"a">>, <<"b">> }

Lists == {PyList(x) : x \in UNION {[1 .. n -> Items] : n \in 0 .. MaxItems}}

Objects == {PyDict(f) : f \in UNION {[K -> Items] : K \in SUBSET Keys}}

Nested ==
    { PyList(<<PyList(<<PyInt(1)>>), PyDict(<<"a">> :> PyList(<<>>))>>),
      PyDict(<<"a">> :> PyDict(<<"b">> :> PyInt(1))),
      PyDict((<<"a">> :> PyList(<<PyInt(1), PyStr(<<"a">>)>>)) @@ (<<"b">> :> None)),
      PyList(<<PyDict(EmptyDict), PyList(<<PyList(<<>>)>>)>>),
      PyDict(<<"a">> :> PyList(<<PyStr(<<"b", ",", "}">>)>>)) }

JsonValues == Scalars \cup Lists \cup Objects \cup Nested

\* How a document is handed over: bare, or in a fenced block with or
\* without the json tag.
Wraps == {"bare", "fenced", "fenced json"}

Wrap(w, text) ==
    CASE w = "bare" -> text
      [] w = "fenced" -> Fence \o <<"\n">> \o text \o <<"\n">> \o Fence
      [] w = "fenced json" -> Fence \o JsonTag \o <<"\n">> \o text \o <<"\n">> \o Fence

\* The indices of the closing braces and brackets of a serialized document
\* that are outside its strings (the strings drawn hold no quote).
Closers(text) ==
    {i \in 1 .. Len(text) :
        /\ text[i] \in {"}", "]"}
        /\ Cardinality({k \in 1 .. i : text[k] = "\""}) % 2 = 0}

\* text with ins inserted before index i
InsertBefore(text, i, ins) ==
    SubSeq(text, 1, i - 1) \o ins \o SubSeq(text, i, Len(text))

\* The metadata mappings drawn.
Metadata ==
    { PyDict(EmptyDict),
      PyDict((<<"a">> :> PyInt(0)) @@ (<<"b">> :> PyInt(2))),
      PyDict(<<"c">> :> PyStr(<<"a">>)) }

\* Arguments that are no mapping.
NotMappings == {PyList(<<PyInt(1)>>), PyInt(5)}

\* Texts that are no JSON document, before and after the cleanup.
Junk ==
    { <<"n", "o", "t", " ", "j", "s", "o", "n", " ", "{", "{", "{">>,
      <<"{">>, <<"[", "1">>, <<"[", "1", "]", "]">>, <<"{", "\"", "a", "\"", ":", "}">>,
      <<"\"", "a">>, <<"{", "a", ":", "1", "}">>, <<"[", "1", " ", "2", "]">>,
      <<"[", "\"", "a", "\n", "\"", "]">>, <<",">>, <<"{", "\"", "a", "\"", " ", "1", "}">> }

\* Documents that parse only after the cleanup, and documents that parse
\* as they are though the cleanup would change them.
Repairable ==
    { <<"[", "1", ",", "]">>, <<"{", "\"", "a", "\"", ":", "1", ",", "\n", "}">>,
      <<"[", "1", "]", " ", "/", "/", "a">>, <<"/", "*", "a", "*", "/", "[", "1", "]">>,
      <<"[", "/", "/", "a", "\n", "1", "]">>, <<"[", "1", ",", " ", "]", "/", "*", "\n", "*", "/">>,
      <<"[", "\"", "/", "/", "\"", "]">>, <<"[", ",", "]">>, <<"{", ",", "}">>,
      <<"[", "[", "1", ",", "]", ",", "]">> }

\* Prose around a block, and a second block after the first.
Before == { <<>>, <<"H", "i", ":", "\n">>, <<" ", "\n">> }

After ==
    { <<>>, <<"\n", "o", "k", "!">>, <<" ">>,
      <<"\n">> \o Fence \o <<"[", "2", "]">> \o Fence }

\* The bodies put between the fences.
Bodies ==
    { <<"[", "1", "]">>, <<"{", "\"", "a", "\"", ":", "1", "}">>, <<>>, <<" ">>,
      <<"j", "s", "o", "n">>, <<"[", "1", ",", "]">>, <<"n", "o">>, <<Backtick, "1">> }

\* The ways a block is opened and closed.
Openings ==
    { Fence, Fence \o JsonTag, Fence \o <<"\n">>, Fence \o JsonTag \o <<"\n", " ">>,
      Fence \o <<"j", "s">>, <<Backtick, Backtick>>, <<>> }

Closings == { Fence, <<"\n">> \o Fence, <<" ", "\n">> \o Fence \o <<Backtick>>, <<>> }

\* What is passed as raw_content when it is no text, and the empty text.
NotTexts ==
    {None, PyInt(0), PyInt(5), PyList(<<>>), PyList(<<PyStr(<<"a">>)>>),
     PyDict(EmptyDict), PyBool(TRUE), PyStr(<<>>)}

ExtractArgs(raw, metadata, parse, fallback) ==
    [raw_content |-> raw, result_metadata |-> metadata,
     parse |-> parse, fallback_to_raw |-> fallback]

\* A question with the given marks and sub-questions (None: the key is absent).
Question(marks, subs) ==
    PyDict([k \in (IF marks = None THEN {} ELSE {KeyMarks})
                    \cup (IF subs = None THEN {} ELSE {KeySubQuestions}) |->
                IF k = KeyMarks THEN marks ELSE subs])

QuestionPool ==
    { Question(PyInt(2), None), Question(PyInt(3), None), Question(None, None),
      Question(PyInt(4), PyList(<<Question(PyInt(1), None), Question(PyInt(2), None)>>)),
      Question(None, PyList(<<Question(PyInt(1), None), Question(None, None)>>)),
      Question(PyInt(1), PyDict(KeyMarks :> PyInt(7))) }

QuestionLists ==
    {PyList(x) : x \in UNION {[1 .. n -> QuestionPool] : n \in 0 .. MaxQuestions}}

\* A section with the given questions and the totalMarks the text carries
\* (None: the key is absent).
Section(questions, carried) ==
    PyDict([k \in (IF questions = None THEN {} ELSE {KeyQuestions})
                    \cup (IF carried = None THEN {} ELSE {KeyTotalMarks}) |->
                IF k = KeyQuestions THEN questions ELSE carried])

SectionPool ==
    {Section(q, c) : q \in QuestionLists, c \in {None, PyInt(9)}}
        \cup {Section(None, None), Section(PyInt(5), PyInt(9))}

\* The sections that follow the first one of a paper.
MoreSections ==
    { <<>>,
      <<Section(PyList(<<Question(PyInt(5), None)>>), PyInt(9))>>,
      <<Section(None, None), Section(PyList(<<Question(PyInt(2), None)>>), None)>> }

Paper(sections) == PyDict((KeySections :> sections) @@ (<<"a">> :> PyInt(1)))

Papers ==
    {Paper(PyList(<<s>> \o more)) : s \in SectionPool, more \in MoreSections}
        \cup {Paper(PyList(<<>>))}

\* Documents whose shape is not a paper's: sections that is no list of
\* objects, questions that are no objects, marks that are no numbers.
OddPapers ==
    { Paper(PyInt(5)), Paper(None), Paper(PyStr(<<>>)), Paper(PyStr(<<"a", "b">>)),
      Paper(PyDict(EmptyDict)), Paper(PyDict(<<"a">> :> PyInt(1))),
      Paper(PyList(<<PyInt(5)>>)), Paper(PyList(<<PyList(<<>>)>>)),
      Paper(PyList(<<PyStr(KeyQuestions)>>)),
      Paper(PyList(<<PyList(<<PyStr(KeyQuestions)>>)>>)),
      Paper(PyList(<<Section(PyList(<<PyInt(5)>>), None)>>)),
      Paper(PyList(<<Section(PyList(<<PyStr(<<"a">>), PyList(<<>>)>>), None)>>)),
      Paper(PyList(<<Section(PyList(<<PyStr(KeyMarks)>>), None)>>)),
      Paper(PyList(<<Section(PyList(<<Question(PyStr(<<"2">>), None)>>), None)>>)),
      Paper(PyList(<<Section(PyList(<<Question(None, None), Question(None, None)>>), None)>>)),
      Paper(PyList(<<Section(PyList(<<Question(PyBool(TRUE), None)>>), None)>>)),
      Paper(PyList(<<Section(PyList(<<Question(PyInt(2), PyList(<<PyInt(5)>>))>>), None)>>)),
      Paper(PyList(<<Section(PyList(<<Question(PyInt(2), PyList(<<Question(None, None)>>))>>),
                             None)>>)),
      PyList(<<PyInt(1)>>), PyDict(<<"a">> :> PyInt(1)), PyStr(KeySections) }

\* Serialized JSON values, bare and fenced.
InitSerialized ==
    \E v \in JsonValues, w \in Wraps :
        /\ op = "extract_json_from_response"
        /\ args = ExtractArgs(PyStr(Wrap(w, json_dumps(v))), None, TRUE, TRUE)
        /\ origin = [kind |-> "serialized", value |-> v, wrap |-> w]

\* Serialized lists and objects with a comma, and whitespace or none after
\* it, put before one of their closing braces or brackets.
InitTrailingComma ==
    \E v \in Lists \cup Objects \cup Nested, w \in Wraps,
       ws \in { <<>>, <<" ">>, <<"\n", " ">> } :
        \E i \in Closers(json_dumps(v)) :
            /\ op = "extract_json_from_response"
            /\ args = ExtractArgs(
                        PyStr(Wrap(w, InsertBefore(json_dumps(v), i, <<",">> \o ws))),
                        None, TRUE, TRUE)
            /\ origin = [kind |-> "trailing comma", value |-> v, wrap |-> w]

\* Serialized values with a result_metadata argument.
InitWithMetadata ==
    \E v \in Scalars \cup Objects \cup Nested, m \in Metadata \cup NotMappings,
       fallback \in BOOLEAN :
        /\ op = "extract_json_from_response"
        /\ args = ExtractArgs(PyStr(json_dumps(v)), m, TRUE, fallback)
        /\ origin = [kind |-> "with metadata", value |-> v, wrap |-> "bare"]

\* Texts that are no JSON, or are JSON only after the cleanup.
InitText ==
    \E x \in Junk \cup Repairable, w \in Wraps, pad \in { <<>>, <<" ", "\n">> },
       m \in {None, PyDict(<<"c">> :> PyStr(<<"a">>))},
       parse \in BOOLEAN, fallback \in BOOLEAN :
        /\ op = "extract_json_from_response"
        /\ args = ExtractArgs(PyStr(pad \o Wrap(w, x) \o pad), m, parse, fallback)
        /\ origin = [kind |-> "text", value |-> PyStr(x), wrap |-> w]

\* Blocks opened and closed in several ways, with prose around them.
InitBlocks ==
    \E b \in Before, o \in Openings, x \in Bodies, c \in Closings, a \in After :
        /\ op = "extract_json_from_response"
        /\ args = ExtractArgs(PyStr(b \o o \o x \o c \o a), None, TRUE, TRUE)
        /\ origin = [kind |-> "block", value |-> PyStr(x), wrap |-> "block"]

\* A raw_content that is empty or no text.
InitNotText ==
    \E raw \in NotTexts, m \in {None} \cup Metadata \cup NotMappings,
       parse \in BOOLEAN, fallback \in BOOLEAN :
        /\ op = "extract_json_from_response"
        /\ args = ExtractArgs(raw, m, parse, fallback)
        /\ origin = [kind |-> "not text", value |-> raw, wrap |-> "bare"]

\* Question papers handed to parse_questions.
InitPapers ==
    \E v \in Papers \cup OddPapers, w \in {"bare", "fenced json"},
       m \in {PyDict(EmptyDict), PyDict(<<"c">> :> PyStr(<<"a">>))} :
        /\ op = "parse_questions"
        /\ args = [raw_content |-> PyStr(Wrap(w, json_dumps(v))), request_metadata |-> m]
        /\ origin = [kind |-> "paper", value |-> v, wrap |-> w]

InitJson ==
    /\ pc = "call"
    /\ ret = None
    /\ prev = NoCall
    /\ locals = NoLocals
    /\ \/ InitSerialized
       \/ InitTrailingComma
       \/ InitWithMetadata
       \/ InitText
       \/ InitBlocks
       \/ InitNotText
       \/ InitPapers

NextJson ==
    \/ ExtractCandidate
    \/ ParseAsIs
    \/ CleanAndRetry
    \/ TotalSections

SpecJson == InitJson /\ [][NextJson]_vars

(***************************************************************************)
(* Properties of JSONParser                                                *)
(***************************************************************************)

ExtractDone == pc = "done" /\ op = "extract_json_from_response"

\* The value the candidate parses to, as it is or after the cleanup.
CandidateParses ==
    \/ json_loads(locals.json_content.v).ok
    \/ json_loads(_clean_json_content(locals.json_content.v)).ok

ParsedCandidate ==
    IF json_loads(locals.json_content.v).ok
    THEN json_loads(locals.json_content.v).val
    ELSE json_loads(_clean_json_content(locals.json_content.v)).val

\* raw_content is a text that is not empty.
IsText(raw) == raw.t = "str" /\ raw.v # <<>>

\* C2: round trip: the serialization of any JSON value V, bare or in a
\* fenced block with or without the json tag, and no metadata, is normalized
\* to (True, V, None).
C2_RoundTrip ==
    (ExtractDone /\ origin.kind = "serialized") =>
        ret = Returned(Triple(TRUE, origin.value, None))

\* C3: when the candidate fails both parse attempts the call returns
\* success False with an error message that is not empty, and as its value
\* the raw_content it was given when fallback_to_raw is true, None when not.
C3_FailureReturnsRaw ==
    (ExtractDone /\ args.parse /\ IsText(args.raw_content) /\ ~CandidateParses) =>
        /\ ~ret.raised
        /\ ret.value.success = FALSE
        /\ ret.value.error.t = "str"
        /\ ret.value.error.text # ""
        /\ ret.value.data = IF args.fallback_to_raw THEN args.raw_content ELSE None

\* Both attempts failed on a candidate that is not the raw text, and the
\* raw text came back.
C3_Witness ==
    /\ ExtractDone /\ args.parse /\ IsText(args.raw_content) /\ ~CandidateParses
    /\ args.fallback_to_raw
    /\ locals.json_content # args.raw_content
    /\ locals.attempts = 2
    /\ ret.value.data = args.raw_content

\* C4: when the candidate parses to an object P and a metadata mapping M is
\* given, the value returned has the keys of M and of P, every key of P with
\* P's value and every key of M alone with M's value.
C4_ParsedWinsMerge ==
    (/\ ExtractDone /\ args.parse /\ IsText(args.raw_content)
     /\ args.result_metadata.t = "dict"
     /\ CandidateParses /\ ParsedCandidate.t = "dict") =>
        LET M == args.result_metadata.v
            P == ParsedCandidate.v
            data == ret.value.data
        IN  /\ ~ret.raised
            /\ ret.value.success
            /\ data.t = "dict"
            /\ DOMAIN data.v = DOMAIN M \cup DOMAIN P
            /\ \A k \in DOMAIN P : data.v[k] = P[k]
            /\ \A k \in DOMAIN M \ DOMAIN P : data.v[k] = M[k]

\* A key of both with different values, and a key of the metadata alone.
C4_Witness ==
    /\ ExtractDone /\ args.parse /\ IsText(args.raw_content)
    /\ args.result_metadata.t = "dict"
    /\ CandidateParses /\ ParsedCandidate.t = "dict"
    /\ \E k \in DOMAIN args.result_metadata.v \cap DOMAIN ParsedCandidate.v :
            args.result_metadata.v[k] # ParsedCandidate.v[k]
    /\ DOMAIN args.result_metadata.v \ DOMAIN ParsedCandidate.v # {}
    /\ ret.value.success

\* C5: called with parse=True, for every raw_content (a text, the empty
\* text, or no text at all), every metadata argument and both values of
\* fallback_to_raw, the call returns a (success, value, error) tuple and
\* raises nothing.
C5_NeverRaises ==
    (ExtractDone /\ args.parse) =>
        /\ ~ret.raised
        /\ DOMAIN ret.value = {"success", "data", "error"}
        /\ ret.value.success \in BOOLEAN

\* The merge with a metadata argument that is no mapping raised, and the
\* call returned a failure.
C5_Witness ==
    /\ ExtractDone /\ args.parse
    /\ args.result_metadata \in NotMappings
    /\ IsText(args.raw_content) /\ CandidateParses
    /\ ~ret.raised
    /\ ~ret.value.success

\* The marks a question or a sub-question counts for.
MarksField(q) ==
    IF q.t = "dict" /\ KeyMarks \in DOMAIN q.v
    THEN (IF q.v[KeyMarks].t = "bool" THEN (IF q.v[KeyMarks].v THEN 1 ELSE 0)
          ELSE q.v[KeyMarks].v)
    ELSE 0

SubQuestionsOf(q) ==
    IF q.t = "dict" /\ KeySubQuestions \in DOMAIN q.v /\ q.v[KeySubQuestions].t = "list"
    THEN q.v[KeySubQuestions].v
    ELSE <<>>

QuestionsOf(section) ==
    IF KeyQuestions \in DOMAIN section.v /\ section.v[KeyQuestions].t = "list"
    THEN section.v[KeyQuestions].v
    ELSE <<>>

SectionSum(section) ==
    LET qs == QuestionsOf(section)
    IN  SumOver(DOMAIN qs,
                [i \in DOMAIN qs |->
                    MarksField(qs[i])
                    + SumOver(DOMAIN SubQuestionsOf(qs[i]),
                              [j \in DOMAIN SubQuestionsOf(qs[i]) |->
                                    MarksField(SubQuestionsOf(qs[i])[j])])])

QuestionsDone == pc = "done" /\ op = "parse_questions"

HasSectionList(data) ==
    data.t = "dict" /\ KeySections \in DOMAIN data.v /\ data.v[KeySections].t = "list"

\* C6: after parse_questions succeeds with an object that has a sections
\* array, the totalMarks of every section is the sum of the marks of its
\* questions and of the marks of the entries of their subQuestions lists,
\* whatever totalMarks the text carried for the section.
C6_SectionTotals ==
    (/\ QuestionsDone /\ ~ret.raised /\ ret.value.success
     /\ HasSectionList(ret.value.data)) =>
        LET sections == ret.value.data.v[KeySections].v
        IN  \A i \in DOMAIN sections :
                /\ sections[i].t = "dict"
                /\ KeyTotalMarks \in DOMAIN sections[i].v
                /\ sections[i].v[KeyTotalMarks] = PyInt(SectionSum(sections[i]))

\* A section that carried a totalMarks of its own, has a question with
\* sub-questions that count, and got another total.
C6_Witness ==
    /\ QuestionsDone /\ ~ret.raised /\ ret.value.success
    /\ HasSectionList(ret.value.data)
    /\ \E i \in DOMAIN origin.value.v[KeySections].v :
        LET given == origin.value.v[KeySections].v[i]
            section == ret.value.data.v[KeySections].v[i]
        IN  /\ KeyTotalMarks \in DOMAIN given.v
            /\ given.v[KeyTotalMarks] # section.v[KeyTotalMarks]
            /\ \E k \in DOMAIN QuestionsOf(section) :
                \E j \in DOMAIN SubQuestionsOf(QuestionsOf(section)[k]) :
                    MarksField(SubQuestionsOf(QuestionsOf(section)[k])[j]) > 0

\* C9: a valid JSON document with a comma, and whitespace or none after
\* it, put before one of its closing braces or brackets, fenced or bare,
\* is normalized to success True with the value of the document.
C9_TrailingCommaTolerated ==
    (ExtractDone /\ origin.kind = "trailing comma") =>
        ret = Returned(Triple(TRUE, origin.value, None))

\* A fence starts at index i of s.
FenceAt(s, i) ==
    /\ i >= 1
    /\ i + 2 <= Len(s)
    /\ \A k \in i .. i + 2 : s[k] = Backtick

HasFencedBlock(s) ==
    \E i, j \in 1 .. Len(s) : FenceAt(s, i) /\ FenceAt(s, j) /\ j >= i + 3

\* The text between the opening fence of the first block, with its json
\* tag if it has one, and the fence that closes the block.
InnerOfFirstBlock(s) ==
    LET open == CHOOSE i \in 1 .. Len(s) :
                    FenceAt(s, i) /\ \A k \in 1 .. i - 1 : ~FenceAt(s, k)
        tagged == /\ open + 6 <= Len(s)
                  /\ <<s[open + 3], s[open + 4], s[open + 5], s[open + 6]>> = JsonTag
        start == IF tagged THEN open + 7 ELSE open + 3
        close == CHOOSE j \in start .. Len(s) :
                    FenceAt(s, j) /\ \A k \in start .. j - 1 : ~FenceAt(s, k)
    IN  SubSeq(s, start, close - 1)

\* s without the whitespace around it.
Trimmed(s) ==
    LET solid == {k \in 1 .. Len(s) : s[k] \notin {" ", "\n"}}
    IN  IF solid = {} THEN <<>>
        ELSE SubSeq(s, CHOOSE a \in solid : \A k \in solid : a <= k,
                       CHOOSE b \in solid : \A k \in solid : b >= k)

\* C10: the candidate is the trimmed inner content of the first fenced
\* block (its json tag left out) when raw_content has a fenced block, the
\* prose before and after the block ignored, and the whole input trimmed
\* when it has none.
C10_CandidateExtraction ==
    (/\ op = "extract_json_from_response" /\ pc # "call"
     /\ IsText(args.raw_content)) =>
        locals.json_content =
            PyStr(IF HasFencedBlock(args.raw_content.v)
                  THEN Trimmed(InnerOfFirstBlock(args.raw_content.v))
                  ELSE Trimmed(args.raw_content.v))

\* Prose before the first block, and a second block after it.
C10_Witness ==
    /\ ExtractDone
    /\ IsText(args.raw_content)
    /\ HasFencedBlock(args.raw_content.v)
    /\ ~FenceAt(args.raw_content.v, 1)
    /\ Cardinality({i \in 1 .. Len(args.raw_content.v) :
                        FenceAt(args.raw_content.v, i)}) >= 4
    /\ ret.value.success
    /\ ret.value.data = PyList(<<PyInt(1)>>)

\* C11: called with parse=True and a raw_content that is the empty text or
\* no text at all, the call returns (False, None, 'Empty or invalid content
\* provided') at once, for both values of fallback_to_raw: no candidate is
\* extracted and nothing is parsed.
C11_InvalidContentRejected ==
    (ExtractDone /\ args.parse /\ ~IsText(args.raw_content)) =>
        /\ ret = Returned(Triple(FALSE, None,
                                 Message("Empty or invalid content provided", "")))
        /\ locals.json_content = None
        /\ locals.attempts = 0

\* A value that is no text and is not falsy, with fallback_to_raw set: it
\* does not come back.
C11_Witness ==
    /\ ExtractDone /\ args.parse
    /\ args.raw_content.t # "str"
    /\ Truthy(args.raw_content)
    /\ args.fallback_to_raw
    /\ ret.value.data = None
    /\ locals.attempts = 0

\* C17: parse_questions raises for no raw text: for valid JSON whose
\* sections value is no list of objects, whose questions entries are no
\* objects or whose marks are no numbers, too, it returns a (success, value,
\* error) triple.
C17_QuestionsNeverRaise ==
    QuestionsDone =>
        /\ ~ret.raised
        /\ DOMAIN ret.value = {"success", "data", "error"}

\* C18: whenever the candidate parses, as it is or after the cleanup, and
\* a metadata mapping was given (the empty one included), the call returns
\* success True with error None, whatever kind of JSON value was parsed:
\* object, array, string, number, boolean or null.
C18_ParsedWithMetadataSucceeds ==
    (/\ ExtractDone /\ args.parse /\ IsText(args.raw_content)
     /\ args.result_metadata.t = "dict"
     /\ CandidateParses) =>
        /\ ~ret.raised
        /\ ret.value.success
        /\ ret.value.error = None

\* C24: the cleanup pass runs only after the direct parse of the candidate
\* has failed, and at most two parse attempts are made per call: a candidate
\* that is valid JSON as it is is returned from attempt 1 with its contents
\* unchanged, string values that contain //, a block comment or a comma
\* followed by a closing brace or bracket included.
C24_CleanupOnlyAfterFailure ==
    op \in JsonOps =>
        /\ locals.attempts \in 0 .. 2
        /\ pc = "cleanup" =>
                /\ locals.attempts = 1
                /\ ~json_loads(locals.json_content.v).ok
        /\ locals.cleaned_json # None =>
                /\ locals.attempts = 2
                /\ ~json_loads(locals.json_content.v).ok
        /\ (/\ ExtractDone /\ args.parse /\ IsText(args.raw_content)
            /\ json_loads(locals.json_content.v).ok) =>
                /\ locals.attempts = 1
                /\ locals.cleaned_json = None
                /\ args.result_metadata = None =>
                        ret = Returned(Triple(TRUE,
                                json_loads(locals.json_content.v).val, None))
        /\ (/\ ExtractDone /\ origin.kind = "serialized"
            /\ locals.json_content = PyStr(json_dumps(origin.value))) =>
                /\ locals.attempts = 1
                /\ ret = Returned(Triple(TRUE, origin.value, None))

\* The serialization of a list with the string "//a" was parsed at the first
\* attempt and came back as it was.
C24_Witness ==
    /\ ExtractDone
    /\ origin.kind = "serialized"
    /\ origin.value = PyList(<<PyStr(<<"/", "/", "a">>), PyStr(<<"b", ",", "}">>)>>)
    /\ locals.json_content = PyStr(json_dumps(origin.value))
    /\ locals.attempts = 1
    /\ locals.cleaned_json = None
    /\ ret.value.data = origin.value
    /\ _clean_json_content(locals.json_content.v) # locals.json_content.v

\* C25: every triple extract_json_from_response returns (parse=True) is
\* consistent: success is True if and only if error is None, and whenever
\* success is False the error is a string that is not empty and the value
\* is the raw_content argument itself or None, never a parsed or partly
\* merged structure.
C25_TripleConsistent ==
    (ExtractDone /\ args.parse) =>
        /\ ~ret.raised
        /\ DOMAIN ret.value = {"success", "data", "error"}
        /\ ret.value.success \in BOOLEAN
        /\ ret.value.success <=> ret.value.error = None
        /\ ~ret.value.success =>
                /\ ret.value.error.t = "str"
                /\ ret.value.error.text # ""
                /\ ret.value.data \in {args.raw_content, None}
                /\ ret.value.data = None <=>
                        (~IsText(args.raw_content) \/ ~args.fallback_to_raw)

\* A document that parses and is no mapping, with a metadata mapping and
\* the fallback in force: the failure carries the raw text, not the parsed
\* list.
C25_Witness ==
    /\ ExtractDone /\ args.parse
    /\ IsText(args.raw_content)
    /\ args.result_metadata.t = "dict"
    /\ CandidateParses
    /\ ParsedCandidate.t = "list"
    /\ args.fallback_to_raw
    /\ ~ret.value.success
    /\ ret.value.data = args.raw_content
    /\ ret.value.data # ParsedCandidate
    /\ ret.value.error.text = "Unexpected error during JSON parsing: "

(***************************************************************************)
(* Blueprint allocator                                                     *)
(***************************************************************************)

\* The largest and the smallest mark budget drawn (the smallest is -MaxDebt).
MaxMarks == 120
MaxDebt == 20

Sections == {"A", "B", "C", "D", "E"}

MARKS_PER_QUESTION ==
    ("MCQ" :> 1) @@ ("VSA" :> 2) @@ ("SA" :> 3) @@ ("LA" :> 5) @@ ("CASE" :> 4)

SECTION_MAP ==
    ("A" :> "MCQ") @@ ("B" :> "VSA") @@ ("C" :> "SA") @@ ("D" :> "LA") @@ ("E" :> "CASE")

\* The source's 0.15, 0.15, 0.25, 0.25, 0.20, in hundredths.
SECTION_DISTRIBUTION ==
    ("A" :> 15) @@ ("B" :> 15) @@ ("C" :> 25) @@ ("D" :> 25) @@ ("E" :> 20)

\* A slip: a tie is rounded up.
RoundHalfUp(n, d) ==
    LET q == n \div d
        r == n % d
    IN  IF 2 * r >= d THEN q + 1 ELSE q

\* Python's round() of the quotient n / d (d > 0): to the nearest integer,
\* a tie to the even one.
RoundHalfEven(n, d) ==
    LET q == n \div d
        r == n % d
    IN  IF 2 * r > d \/ (2 * r = d /\ q % 2 = 1) THEN q + 1 ELSE q

Max(a, b) == IF a >= b THEN a ELSE b

\* allocated_marks = {sec: round(total_marks * pct)}
allocated_marks(total_marks) ==
    [sec \in Sections |-> RoundHalfEven(total_marks * SECTION_DISTRIBUTION[sec], 100)]

\* A slip: the counts without their lower bound of 1.
initial_questions_unbounded(alloc) ==
    [sec \in Sections |-> alloc[sec] \div MARKS_PER_QUESTION[SECTION_MAP[sec]]]

\* {sec: max(1, allocated_marks[sec] // MARKS_PER_QUESTION[SECTION_MAP[sec]])}
initial_questions(alloc) ==
    [sec \in Sections |-> Max(1, alloc[sec] \div MARKS_PER_QUESTION[SECTION_MAP[sec]])]

actual_marks(qps) ==
    SumOver(Sections, [sec \in Sections |-> qps[sec] * MARKS_PER_QUESTION[SECTION_MAP[sec]]])

\* A slip: every count is moved by the mismatch.
adjust_mismatch_everywhere(qps, diff) ==
    IF diff # 0 THEN [sec \in Sections |-> qps[sec] + diff] ELSE qps

\* A slip: the mismatch is put on the two-mark category.
adjust_mismatch_on_VSA(qps, diff) ==
    IF diff # 0 THEN [qps EXCEPT !["B"] = @ + diff] ELSE qps

\* if diff != 0: questions_per_section["A"] += diff
adjust_mismatch(qps, diff) ==
    IF diff # 0 THEN [qps EXCEPT !["A"] = @ + diff] ELSE qps

blueprint_marks(qps) ==
    [c \in {SECTION_MAP[sec] : sec \in Sections} |->
        LET sec == CHOOSE s \in Sections : SECTION_MAP[s] = c
        IN  qps[sec] * MARKS_PER_QUESTION[c]]

\* A slip: the blueprint is built before the mismatch is adjusted.
allocate_with_early_blueprint(total_marks) ==
    LET alloc == allocated_marks(total_marks)
        qps0  == initial_questions(alloc)
        diff  == total_marks - actual_marks(qps0)
        qps   == adjust_mismatch(qps0, diff)
    IN  [total_marks |-> total_marks,
         questions_per_section |-> qps,
         blueprint |->
            [marksDistribution |-> blueprint_marks(qps0),
             difficultySplit |-> [Easy |-> "40%", Medium |-> "40%", Hard |-> "20%"],
             skillsCovered |-> <<>>]]

allocate_marks_and_generate_blueprint(total_marks) ==
    LET alloc == allocated_marks(total_marks)
        qps0  == initial_questions(alloc)
        diff  == total_marks - actual_marks(qps0)
        qps   == adjust_mismatch(qps0, diff)
    IN  [total_marks |-> total_marks,
         questions_per_section |-> qps,
         blueprint |->
            [marksDistribution |-> blueprint_marks(qps),
             difficultySplit |-> [Easy |-> "40%", Medium |-> "40%", Hard |-> "20%"],
             skillsCovered |-> <<>>]]

\* Integers that TLC's integers cannot hold: total_marks * 10^exp10.
BeyondFloat == {[total_marks |-> s, exp10 |-> 400] : s \in {1, 0 - 1}}

\* total_marks * pct (line 21): the int is converted to a float, and Python
\* raises OverflowError for an int above the largest float, which is below
\* 10^309.
int_times_float_overflows(call) ==
    "exp10" \in DOMAIN call /\ call.exp10 >= 309

InitAlloc ==
    /\ pc = "call"
    /\ op = "allocate_marks_and_generate_blueprint"
    /\ \/ \E t \in (0 - MaxDebt) .. MaxMarks : args = [total_marks |-> t]
       \/ args \in BeyondFloat
    /\ ret = None
    /\ prev = NoCall
    /\ locals = NoLocals
    /\ origin = NoOrigin

\* A slip: questions_per_section outlives the call, and a later call adds
\* its counts to the ones an earlier call left.
Allocate_on_kept_counts ==
    /\ pc = "call"
    /\ op = "allocate_marks_and_generate_blueprint"
    /\ IF int_times_float_overflows(args)
       THEN ret' = Raised("OverflowError") /\ pc' = "raised"
       ELSE LET final == allocate_marks_and_generate_blueprint(args.total_marks)
                kept == IF prev # NoCall /\ ~int_times_float_overflows(prev.args)
                        THEN prev.ret.questions_per_section
                        ELSE [sec \in Sections |-> 0]
            IN  /\ ret' = [final EXCEPT !.questions_per_section =
                                [sec \in Sections |-> @[sec] + kept[sec]]]
                /\ pc' = "done"
    /\ UNCHANGED <<op, args, prev, locals, origin>>

\* The call: it returns (pc "done"), or the product of line 21 raises and
\* the exception leaves the function (pc "raised").
Allocate ==
    /\ pc = "call"
    /\ op = "allocate_marks_and_generate_blueprint"
    /\ IF int_times_float_overflows(args)
       THEN ret' = Raised("OverflowError") /\ pc' = "raised"
       ELSE /\ ret' = allocate_marks_and_generate_blueprint(args.total_marks)
            /\ pc' = "done"
    /\ UNCHANGED <<op, args, prev, locals, origin>>

NextAlloc == Allocate

SpecAlloc == InitAlloc /\ [][NextAlloc]_vars

AllocDone == pc = "done" /\ op = "allocate_marks_and_generate_blueprint"

\* C1: for every total_marks >= 1 the returned counts, each multiplied by its
\* category's per-question marks (MCQ 1, VSA 2, SA 3, LA 5, CASE 4), sum to
\* total_marks exactly.
C1_SumEqualsBudget ==
    (AllocDone /\ args.total_marks >= 1) =>
        LET q == ret.questions_per_section
        IN  q["A"] * 1 + q["B"] * 2 + q["C"] * 3 + q["D"] * 5 + q["E"] * 4
                = args.total_marks

\* A budget whose proportional counts do not add up, so that the adjustment acts.
C1_Witness ==
    /\ AllocDone
    /\ args.total_marks >= 1
    /\ actual_marks(initial_questions(allocated_marks(args.total_marks)))
            # args.total_marks

\* The call of the allocator is over: it returned or it raised.
AllocOver == op = "allocate_marks_and_generate_blueprint" /\ pc # "call"

\* C12: the allocator rejects no input: for every integer total_marks, zero
\* and negative values included, the call returns without error a mapping
\* with exactly the five categories, each with an integer question count.
C12_NoInputRejected ==
    AllocOver =>
        /\ pc = "done"
        /\ DOMAIN ret.questions_per_section = Sections
        /\ \A sec \in Sections : ret.questions_per_section[sec] \in Int

\* C14: the blueprint is derived from the final counts: the
\* marksDistribution entry of each category is its final count times its
\* per-question marks, the entries sum to total_marks, the difficulty split
\* is Easy 40%, Medium 40%, Hard 20% and skillsCovered is the empty list,
\* for every total_marks.
C14_BlueprintFromFinalCounts ==
    AllocDone =>
        LET q == ret.questions_per_section
            md == ret.blueprint.marksDistribution
        IN  /\ DOMAIN md = {"MCQ", "VSA", "SA", "LA", "CASE"}
            /\ md["MCQ"] = q["A"] * 1
            /\ md["VSA"] = q["B"] * 2
            /\ md["SA"] = q["C"] * 3
            /\ md["LA"] = q["D"] * 5
            /\ md["CASE"] = q["E"] * 4
            /\ md["MCQ"] + md["VSA"] + md["SA"] + md["LA"] + md["CASE"]
                    = args.total_marks
            /\ ret.blueprint.difficultySplit
                    = [Easy |-> "40%", Medium |-> "40%", Hard |-> "20%"]
            /\ ret.blueprint.skillsCovered = <<>>

\* A budget whose MCQ count the adjustment changed: the MCQ entry of the
\* blueprint is the count after the adjustment.
C14_Witness ==
    /\ AllocDone
    /\ ret.questions_per_section["A"]
            # initial_questions(allocated_marks(args.total_marks))["A"]
    /\ ret.blueprint.marksDistribution["MCQ"] = ret.questions_per_section["A"]
    /\ args.total_marks < 0

\* C15: for every total_marks >= 1 each of the five categories has a
\* question count of at least 1 in the allocation returned.
C15_EveryCategoryRepresented ==
    (AllocDone /\ args.total_marks >= 1) =>
        \A sec \in Sections : ret.questions_per_section[sec] >= 1

\* C20: the final MCQ count is zero or negative exactly for the budgets
\* below 15; for 1 <= total_marks <= 14 it is total_marks - 14, and for
\* total_marks >= 15 all five final counts are at least 1.
C20_DegenerateThreshold ==
    AllocDone =>
        LET q == ret.questions_per_section
            total_marks == args.total_marks
        IN  /\ (q["A"] <= 0) <=> (total_marks < 15)
            /\ (1 <= total_marks /\ total_marks <= 14) => q["A"] = total_marks - 14
            /\ total_marks >= 15 => \A sec \in Sections : q[sec] >= 1

\* A budget from 1 to 14 that leaves a negative MCQ count.
C20_Witness ==
    /\ AllocDone
    /\ 1 <= args.total_marks /\ args.total_marks <= 14
    /\ ret.questions_per_section["A"] < 0
    /\ \A sec \in Sections \ {"A"} : ret.questions_per_section[sec] = 1

\* C21: reconciliation changes only the MCQ count: for every total_marks the
\* final counts of VSA, SA, LA and CASE are their Step-2 values
\* max(1, allocated_marks // per-question marks), the final MCQ count is its
\* Step-2 value plus the signed difference total_marks - actual_marks, and
\* when the difference is zero no count is changed.
C21_OnlyMcqReconciled ==
    AllocDone =>
        LET alloc == allocated_marks(args.total_marks)
            q == ret.questions_per_section
            A2 == Max(1, alloc["A"] \div 1)
            B2 == Max(1, alloc["B"] \div 2)
            C2 == Max(1, alloc["C"] \div 3)
            D2 == Max(1, alloc["D"] \div 5)
            E2 == Max(1, alloc["E"] \div 4)
            actual == A2 * 1 + B2 * 2 + C2 * 3 + D2 * 5 + E2 * 4
        IN  /\ q["B"] = B2 /\ q["C"] = C2 /\ q["D"] = D2 /\ q["E"] = E2
            /\ q["A"] = A2 + (args.total_marks - actual)
            /\ args.total_marks = actual => q["A"] = A2

\* A budget whose Step-2 counts do not add up to it, with the four other
\* counts above their lower bound: the MCQ count alone has moved.
C21_Witness ==
    /\ AllocDone
    /\ LET q0 == initial_questions(allocated_marks(args.total_marks))
           q == ret.questions_per_section
       IN  /\ q["A"] # q0["A"]
           /\ \A sec \in Sections \ {"A"} : q[sec] = q0[sec] /\ q[sec] > 1

RepeatedBudgets ==
    {[total_marks |-> t] : t \in {x \in (0 - MaxDebt) .. MaxMarks : x % 5 = 0}}
        \cup BeyondFloat

InitAllocCalls ==
    /\ pc = "call"
    /\ op = "allocate_marks_and_generate_blueprint"
    /\ args \in RepeatedBudgets
    /\ ret = None
    /\ prev = NoCall
    /\ locals = NoLocals
    /\ origin = [kind |-> "calls", between |-> FALSE]

\* The function is called again.  The call that is over is remembered in
\* prev, or the call prev holds already is kept; origin.between tells that
\* a call with another budget was made since the call in prev.
AllocateAgain ==
    /\ pc \in {"done", "raised"}
    /\ op = "allocate_marks_and_generate_blueprint"
    /\ \/ /\ prev' = [op |-> op, args |-> args, ret |-> ret, pc |-> pc]
          /\ origin' = [origin EXCEPT !.between = FALSE]
       \/ /\ prev # NoCall
          /\ prev' = prev
          /\ origin' = [origin EXCEPT !.between = @ \/ args # prev.args]
    /\ args' \in RepeatedBudgets
    /\ ret' = None
    /\ pc' = "call"
    /\ UNCHANGED <<op, locals>>

NextAllocCalls == Allocate \/ AllocateAgain

SpecAllocCalls == InitAllocCalls /\ [][NextAllocCalls]_vars

\* A call is over and prev holds an earlier call with the same budget.
AllocatedTwice == AllocOver /\ prev # NoCall /\ prev.args = args

MaxKPs == 2

UpperCase ==
    <<"A", "B", "C", "D", "E", "F", "G", "H", "I", "J", "K", "L", "M",
      "N", "O", "P", "Q", "R", "S", "T", "U", "V", "W", "X", "Y", "Z">>

LowerCase ==
    <<"a", "b", "c", "d", "e", "f", "g", "h", "i", "j", "k", "l", "m",
      "n", "o", "p", "q", "r", "s", "t", "u", "v", "w", "x", "y", "z">>

\* str.lower(), on ASCII text
lower(s) ==
    [i \in 1 .. Len(s) |->
        IF \E k \in 1 .. Len(UpperCase) : UpperCase[k] = s[i]
        THEN LowerCase[CHOOSE k \in 1 .. Len(UpperCase) : UpperCase[k] = s[i]]
        ELSE s[i]]

\* s.replace(' ', '_')
replace_spaces(s) == [i \in 1 .. Len(s) |-> IF s[i] = " " THEN "_" ELSE s[i]]

\* A slip: the index is cut to its last two digits.
two_digits(n) == <<DigitChar[((n \div 10) % 10) + 1], DigitChar[(n % 10) + 1]>>

\* f"{n:02d}", n >= 0
zero_padded(n) == IF n < 10 THEN <<"0">> \o IntText(n) ELSE IntText(n)

\* hashlib.md5(content.encode()).hexdigest()[:6]: the digests of MD5 itself,
\* tabulated for the contents the chapters below give with indices 1 to 4,
\* 9 to 12 and 99 to 101.
md5_hexdigest_6(content) ==
    CASE content = <<"c", "e", "l", "l", "_", "c", "y", "c", "l", "e", "_", "1">>
            -> <<"8", "a", "9", "d", "d", "7">>
      [] content = <<"c", "e", "l", "l", "_", "c", "y", "c", "l", "e", "_", "2">>
            -> <<"2", "8", "5", "2", "8", "7">>
      [] content = <<"c", "e", "l", "l", "_", "c", "y", "c", "l", "e", "_", "3">>
            -> <<"d", "a", "2", "4", "8", "b">>
      [] content = <<"c", "e", "l", "l", "_", "c", "y", "c", "l", "e", "_", "4">>
            -> <<"5", "a", "b", "5", "1", "1">>
      [] content = <<"h", "e", "a", "t", "_", "1">>
            -> <<"2", "0", "8", "6", "7", "b">>
      [] content = <<"h", "e", "a", "t", "_", "2">>
            -> <<"4", "c", "f", "7", "d", "9">>
      [] content = <<"h", "e", "a", "t", "_", "3">>
            -> <<"0", "5", "3", "f", "e", "b">>
      [] content = <<"h", "e", "a", "t", "_", "4">>
            -> <<"e", "f", "d", "b", "9", "5">>
      [] content = <<"c", "e", "l", "l", "_", "c", "y", "c", "l", "e", "_", "9">>
            -> <<"8", "5", "6", "4", "e", "a">>
      [] content = <<"c", "e", "l", "l", "_", "c", "y", "c", "l", "e", "_", "1", "0">>
            -> <<"d", "4", "d", "a", "8", "d">>
      [] content = <<"c", "e", "l", "l", "_", "c", "y", "c", "l", "e", "_", "1", "1">>
            -> <<"5", "e", "4", "5", "d", "6">>
      [] content = <<"c", "e", "l", "l", "_", "c", "y", "c", "l", "e", "_", "1", "2">>
            -> <<"2", "7", "7", "0", "f", "6">>
      [] content = <<"c", "e", "l", "l", "_", "c", "y", "c", "l", "e", "_", "9", "9">>
            -> <<"6", "8", "4", "5", "b", "c">>
      [] content = <<"c", "e", "l", "l", "_", "c", "y", "c", "l", "e", "_", "1", "0", "0">>
            -> <<"0", "e", "1", "8", "1", "7">>
      [] content = <<"c", "e", "l", "l", "_", "c", "y", "c", "l", "e", "_", "1", "0", "1">>
            -> <<"1", "b", "e", "3", "4", "1">>
      [] content = <<"h", "e", "a", "t", "_", "9">>
            -> <<"9", "f", "6", "0", "7", "1">>
      [] content = <<"h", "e", "a", "t", "_", "1", "0">>
            -> <<"5", "2", "8", "b", "8", "b">>
      [] content = <<"h", "e", "a", "t", "_", "1", "1">>
            -> <<"c", "2", "8", "2", "0", "5">>
      [] content = <<"h", "e", "a", "t", "_", "1", "2">>
            -> <<"b", "2", "b", "c", "7", "e">>
      [] content = <<"h", "e", "a", "t", "_", "9", "9">>
            -> <<"7", "f", "f", "2", "4", "f">>
      [] content = <<"h", "e", "a", "t", "_", "1", "0", "0">>
            -> <<"7", "5", "5", "3", "d", "0">>
      [] content = <<"h", "e", "a", "t", "_", "1", "0", "1">>
            -> <<"b", "7", "a", "c", "a", "9">>
      [] OTHER -> Unsupported

\* prefix = f"{board.lower()}{grade}_{subject.lower().replace(' ', '_')}"
kp_prefix(board, grade, subject) ==
    lower(board) \o IntText(grade) \o <<"_">> \o replace_spaces(lower(subject))

\* content = f"{chapter.lower().replace(' ', '_')}_{kp_index}"
kp_content(chapter, kp_index) ==
    replace_spaces(lower(chapter)) \o <<"_">> \o IntText(kp_index)

\* An identifier that hashes the index alone.
kp_id_without_chapter(board, grade, subject, chapter, kp_index) ==
    kp_prefix(board, grade, subject) \o <<"_">>
        \o md5_hexdigest_6(<<"h", "e", "a", "t", "_">> \o IntText(kp_index))
        \o <<"_", "k", "p">> \o zero_padded(kp_index)

\* OpenAIService._generate_deterministic_kp_id
_generate_deterministic_kp_id(board, grade, subject, chapter, kp_index) ==
    kp_prefix(board, grade, subject) \o <<"_">>
        \o md5_hexdigest_6(kp_content(chapter, kp_index))
        \o <<"_", "k", "p">> \o zero_padded(kp_index)

KeyKpId == <<"k", "p", "_", "i", "d">>
KeyBoard == <<"b", "o", "a", "r", "d">>
KeyGrade == <<"g", "r", "a", "d", "e">>
KeySubject == <<"s", "u", "b", "j", "e", "c", "t">>
KeyChapter == <<"c", "h", "a", "p", "t", "e", "r">>
KeyKnowledgePoints ==
    <<"k", "n", "o", "w", "l", "e", "d", "g", "e", "_",
      "p", "o", "i", "n", "t", "s">>

\* The context fields of lines 49-52, set on the mapping f.
stamp_context(f, board, grade, subject, chapter) ==
    Put(Put(Put(Put(f, KeyBoard, PyStr(board)), KeyGrade, PyInt(grade)),
            KeySubject, PyStr(subject)), KeyChapter, PyStr(chapter))

\* A loop body that leaves alone a kp_id the entry already has.
stamp_keeping_kp_id(kp, board, grade, subject, chapter, idx) ==
    IF kp.t # "dict" THEN Raised("TypeError")
    ELSE LET id == IF KeyKpId \in DOMAIN kp.v THEN kp.v[KeyKpId]
                   ELSE PyStr(_generate_deterministic_kp_id(
                                board, grade, subject, chapter, idx))
         IN  Returned(PyDict(stamp_context(Put(kp.v, KeyKpId, id),
                                           board, grade, subject, chapter)))

\* The body of the loop (lines 48-52): kp["kp_id"] = ..., kp["board"] = ...;
\* item assignment with a text key raises TypeError on anything but a dict.
stamp(kp, board, grade, subject, chapter, idx) ==
    IF kp.t # "dict" THEN Raised("TypeError")
    ELSE LET id == PyStr(_generate_deterministic_kp_id(
                            board, grade, subject, chapter, idx))
         IN  Returned(PyDict(stamp_context(Put(kp.v, KeyKpId, id),
                                           board, grade, subject, chapter)))

RECURSIVE process_kps(_, _, _, _, _, _)
\* for idx, kp in enumerate(knowledge_points, 1): ...   (lines 47-53); the
\* entries appended to processed_kps from index idx on
process_kps(board, grade, subject, chapter, kps, idx) ==
    IF idx > Len(kps) THEN Returned(<<>>)
    ELSE LET kp == stamp(kps[idx], board, grade, subject, chapter, idx)
         IN  IF kp.raised THEN kp
             ELSE LET rest == process_kps(board, grade, subject, chapter,
                                          kps, idx + 1)
                  IN  IF rest.raised THEN rest
                      ELSE Returned(<<kp.value>> \o rest.value)

\* OpenAIService._post_process_knowledge_points
_post_process_knowledge_points(board, grade, subject, chapter, knowledge_points) ==
    LET kps == py_iter(knowledge_points)
    IN  IF kps.raised THEN kps
        ELSE LET processed_kps ==
                    process_kps(board, grade, subject, chapter, kps.value, 1)
             IN  IF processed_kps.raised THEN processed_kps
                 ELSE Returned(PyDict(KeyKnowledgePoints
                                        :> PyList(processed_kps.value)))

(***************************************************************************)
(* The calls drawn: curriculum coordinates that differ in letter case, in  *)
(* spaces and underscores, or in more than that, and lists of knowledge    *)
(* points of every length up to MaxKPs.  A behaviour is a call, or a call  *)
(* followed by a second call of the same function.                         *)
(***************************************************************************)

Boards == { <<"C", "B", "S", "E">>, <<"c", "b", "s", "e">>, <<"I", "C", "S", "E">> }

Grades == {9, 10}

Subjects ==
    { <<"L", "i", "f", "e", " ", "S", "c", "i", "e", "n", "c", "e">>,
      <<"l", "i", "f", "e", "_", "s", "c", "i", "e", "n", "c", "e">>,
      <<"M", "a", "t", "h", "s">> }

Chapters ==
    { <<"C", "e", "l", "l", " ", "C", "y", "c", "l", "e">>,
      <<"c", "e", "l", "l", "_", "c", "y", "c", "l", "e">>,
      <<"H", "e", "a", "t">> }

\* Entries as the model writes them: one plain, one that already carries a
\* kp_id and a board of the model's own.
KnowledgePointPool ==
    { PyDict(<<"t", "i", "t", "l", "e">> :> PyStr(<<"a">>)),
      PyDict((KeyKpId :> PyStr(<<"s", "t", "a", "l", "e">>))
                @@ (KeyBoard :> PyStr(<<"x">>))) }

KnowledgePointLists ==
    {PyList(x) : x \in UNION {[1 .. n -> KnowledgePointPool] : n \in 0 .. MaxKPs}}

\* Values of knowledge_points that are not lists of objects.
OddKnowledgePoints == { PyList(<<PyStr(<<"a">>)>>), None }

IdArgs ==
    [board : Boards, grade : Grades, subject : Subjects, chapter : Chapters,
     kp_index : 1 .. MaxKPs]

\* Requests for knowledge points are all for one subject: the subject has
\* the part in the identifier that the board has.
RequestSubjects == { <<"L", "i", "f", "e", " ", "S", "c", "i", "e", "n", "c", "e">> }

PostProcessArgs ==
    [board : Boards, grade : Grades, subject : RequestSubjects,
     chapter : Chapters,
     knowledge_points : KnowledgePointLists \cup OddKnowledgePoints]

KpOps == {"_generate_deterministic_kp_id", "_post_process_knowledge_points"}

KpArgs(f) ==
    IF f = "_generate_deterministic_kp_id" THEN IdArgs ELSE PostProcessArgs

InitKP ==
    /\ pc = "call"
    /\ op \in KpOps
    /\ args \in KpArgs(op)
    /\ ret = None
    /\ prev = NoCall
    /\ locals = NoLocals
    /\ origin = NoOrigin

GenerateId ==
    /\ pc = "call"
    /\ op = "_generate_deterministic_kp_id"
    /\ ret' = Returned(PyStr(_generate_deterministic_kp_id(
                    args.board, args.grade, args.subject, args.chapter,
                    args.kp_index)))
    /\ pc' = "done"
    /\ UNCHANGED <<op, args, prev, locals, origin>>

PostProcess ==
    /\ pc = "call"
    /\ op = "_post_process_knowledge_points"
    /\ ret' = _post_process_knowledge_points(
                    args.board, args.grade, args.subject, args.chapter,
                    args.knowledge_points)
    /\ pc' = "done"
    /\ UNCHANGED <<op, args, prev, locals, origin>>

\* The function is called a second time, with arguments of any kind.
CallAgain ==
    /\ pc = "done"
    /\ op \in KpOps
    /\ prev = NoCall
    /\ prev' = [op |-> op, args |-> args, ret |-> ret]
    /\ args' \in KpArgs(op)
    /\ ret' = None
    /\ pc' = "call"
    /\ UNCHANGED <<op, locals, origin>>

NextKP == GenerateId \/ PostProcess \/ CallAgain

SpecKP == InitKP /\ [][NextKP]_vars

CoordinateNames == {"board", "grade", "subject", "chapter"}

\* Two calls of the identifier generator have returned.
IdPair ==
    /\ pc = "done"
    /\ op = "_generate_deterministic_kp_id"
    /\ prev.op = "_generate_deterministic_kp_id"

\* The inputs in which the second call differs from the first.
ChangedInputs == {f \in CoordinateNames : prev.args[f] # args[f]}

\* The two calls hash different contents to the same digest.
HashCollision ==
    /\ kp_content(prev.args.chapter, prev.args.kp_index)
            # kp_content(args.chapter, args.kp_index)
    /\ md5_hexdigest_6(kp_content(prev.args.chapter, prev.args.kp_index))
            = md5_hexdigest_6(kp_content(args.chapter, args.kp_index))

\* The second call differs from the first in an input as the generator reads
\* it: the grade, the board in lower case, the subject or the chapter in
\* lower case with underscores for spaces.
ChangedAsRead ==
    \/ prev.args.grade # args.grade
    \/ lower(prev.args.board) # lower(args.board)
    \/ replace_spaces(lower(prev.args.subject))
            # replace_spaces(lower(args.subject))
    \/ replace_spaces(lower(prev.args.chapter))
            # replace_spaces(lower(args.chapter))

\* C7, as the spec states it: with the list position fixed, changing any one
\* of board, grade, subject, chapter (the other three unchanged) changes the
\* generated identifier, hash collisions excluded.
C7_AnyChangeChangesId ==
    (/\ IdPair
     /\ prev.args.kp_index = args.kp_index
     /\ Cardinality(ChangedInputs) = 1
     /\ ~HashCollision) => prev.ret # ret

\* C7, amended: with the list position fixed and exactly one of board, grade,
\* subject, chapter changed, the identifier changes if and only if the input
\* changed as the generator reads it (the grade; the board in lower case; the
\* subject or chapter in lower case with underscores for spaces), hash
\* collisions excluded.
C7_ChangeAsReadChangesId ==
    (/\ IdPair
     /\ prev.args.kp_index = args.kp_index
     /\ Cardinality(ChangedInputs) = 1
     /\ ~HashCollision) => ((prev.ret # ret) <=> ChangedAsRead)

\* Two calls that differ in the chapter alone, by more than case and spaces.
C7_Witness ==
    /\ IdPair
    /\ prev.args.kp_index = args.kp_index
    /\ ChangedInputs = {"chapter"}
    /\ ChangedAsRead
    /\ ~HashCollision
    /\ prev.ret # ret

\* Two calls of the post-processing have returned a list each.
PostPair ==
    /\ pc = "done"
    /\ op = "_post_process_knowledge_points"
    /\ prev.op = "_post_process_knowledge_points"
    /\ ~ret.raised
    /\ ~prev.ret.raised

\* The kp_id of every entry of a returned list, in list order.
KpIds(r) ==
    LET kps == r.value.v[KeyKnowledgePoints].v
    IN  [i \in 1 .. Len(kps) |-> kps[i].v[KeyKpId]]

\* C8: the identifier is a pure function of (board, grade, subject, chapter,
\* index): two calls of the generator with the same arguments return the same
\* identifier, and two requests with the same coordinates whose lists have
\* the same length get the same identifier at every list position, whatever
\* the entries hold.
C8_PureIdentifier ==
    /\ (IdPair /\ prev.args = args) => prev.ret = ret
    /\ (/\ PostPair
        /\ \A f \in CoordinateNames : prev.args[f] = args[f]
        /\ Len(prev.args.knowledge_points.v) = Len(args.knowledge_points.v))
            => KpIds(prev.ret) = KpIds(ret)

\* Two requests with the same coordinates and different lists of two or more
\* entries, one of them with a kp_id of the model's own.
C8_Witness ==
    /\ PostPair
    /\ \A f \in CoordinateNames : prev.args[f] = args[f]
    /\ Len(prev.args.knowledge_points.v) = Len(args.knowledge_points.v)
    /\ Len(args.knowledge_points.v) >= 2
    /\ prev.args.knowledge_points # args.knowledge_points
    /\ \E i \in 1 .. Len(args.knowledge_points.v) :
            KeyKpId \in DOMAIN args.knowledge_points.v[i].v
    /\ KpIds(prev.ret) = KpIds(ret)

(***************************************************************************)
(* The identifiers of one list: the generator is called for one position   *)
(* of a list and then for another position of the same list, positions of  *)
(* one, two and three digits among them; and the loop is gone through for  *)
(* the lists drawn.                                                        *)
(***************************************************************************)

\* Positions in long lists, around the lengths at which the index gains a
\* digit.
LongIndices == {9, 10, 11, 99, 100, 101}

OrdinalIdArgs ==
    [board : { <<"C", "B", "S", "E">> }, grade : {9},
     subject : RequestSubjects, chapter : Chapters,
     kp_index : (1 .. MaxKPs) \cup LongIndices]

OrdinalPostProcessArgs ==
    [board : { <<"C", "B", "S", "E">> }, grade : {9},
     subject : RequestSubjects, chapter : Chapters,
     knowledge_points : KnowledgePointLists \cup OddKnowledgePoints]

InitKpOrdinals ==
    /\ pc = "call"
    /\ op \in KpOps
    /\ args \in IF op = "_generate_deterministic_kp_id"
                THEN OrdinalIdArgs ELSE OrdinalPostProcessArgs
    /\ ret = None
    /\ prev = NoCall
    /\ locals = NoLocals
    /\ origin = NoOrigin

\* The loop of lines 47-53 calls the generator for another entry of the
\* list: the coordinates are the same, the position is another one.
NextEntry ==
    /\ pc = "done"
    /\ op = "_generate_deterministic_kp_id"
    /\ prev = NoCall
    /\ prev' = [op |-> op, args |-> args, ret |-> ret]
    /\ \E idx \in ((1 .. MaxKPs) \cup LongIndices) \ {args.kp_index} :
            args' = [args EXCEPT !.kp_index = idx]
    /\ ret' = None
    /\ pc' = "call"
    /\ UNCHANGED <<op, locals, origin>>

NextKpOrdinals == GenerateId \/ PostProcess \/ NextEntry

SpecKpOrdinals == InitKpOrdinals /\ [][NextKpOrdinals]_vars

\* The text s ends with the text suffix.
EndsWith(s, suffix) ==
    /\ Len(s) >= Len(suffix)
    /\ SubSeq(s, Len(s) - Len(suffix) + 1, Len(s)) = suffix

\* "kp" and the position, with a leading zero below 10.
OrdinalSuffix(i) ==
    <<"k", "p">> \o (IF i < 10 THEN <<"0", DigitChar[i + 1]>>
                     ELSE IF i < 100
                     THEN <<DigitChar[(i \div 10) + 1], DigitChar[(i % 10) + 1]>>
                     ELSE <<DigitChar[(i \div 100) + 1],
                            DigitChar[((i \div 10) % 10) + 1],
                            DigitChar[(i % 10) + 1]>>)

\* C28: within one knowledge-point response the assigned identifiers are
\* pairwise distinct: the ordinal indices start at 1 and follow list order,
\* the identifier of the i-th entry ends with kp followed by i, zero-padded
\* to at least two digits, and no two entries of one list share a kp_id,
\* whatever the length of the list.
C28_DistinctWithinList ==
    /\ (pc = "done" /\ op = "_post_process_knowledge_points" /\ ~ret.raised) =>
            LET kps == ret.value.v[KeyKnowledgePoints].v
            IN  /\ Len(kps) = Len(args.knowledge_points.v)
                /\ \A i \in 1 .. Len(kps) :
                        EndsWith(kps[i].v[KeyKpId].v, OrdinalSuffix(i))
                /\ \A i, j \in 1 .. Len(kps) :
                        i # j => kps[i].v[KeyKpId] # kps[j].v[KeyKpId]
    /\ (pc = "done" /\ op = "_generate_deterministic_kp_id") =>
            /\ EndsWith(ret.value.v, OrdinalSuffix(args.kp_index))
            /\ (prev # NoCall /\ prev.args.kp_index # args.kp_index) =>
                    prev.ret # ret

\* The tenth and the hundredth entry of one list have their identifiers.
C28_Witness ==
    /\ pc = "done"
    /\ op = "_generate_deterministic_kp_id"
    /\ prev # NoCall
    /\ prev.args.kp_index = 10
    /\ args.kp_index = 100
    /\ \A f \in {"board", "grade", "subject", "chapter"} : prev.args[f] = args[f]
    /\ prev.ret # ret
    /\ EndsWith(ret.value.v, <<"_", "k", "p", "1", "0", "0">>)

(***************************************************************************)
(* The request paths: a router's handler calls a method of OpenAIService,  *)
(* which calls the upstream text generation and the two utilities          *)
(* (src/services/openai_service.py, src/routers).                          *)
(***************************************************************************)

\* The value of Body at the value of e: a local name of the code, bound to a
\* value that is computed once.
With(e, Body(_)) == CHOOSE y \in {Body(x) : x \in {e}} : TRUE

\* JSONParser.extract_json_from_response(raw_content, result_metadata,
\* parse=True, fallback_to_raw), as one function: the guard, the candidate,
\* the two parse attempts and the handlers.
extract_json_from_response(raw_content, result_metadata, fallback_to_raw) ==
    IF ~Truthy(raw_content) \/ raw_content.t # "str"
    THEN Returned(Triple(FALSE, None,
                         Message("Empty or invalid content provided", "")))
    ELSE LET call == ExtractArgs(raw_content, result_metadata, TRUE, fallback_to_raw)
         IN  With(PyStr(extract_candidate(raw_content.v)), LAMBDA json_content :
                With(json_loads(json_content.v), LAMBDA first :
                    IF first.ok THEN return_parsed(first.val, call, json_content)
                    ELSE With(json_loads(_clean_json_content(json_content.v)),
                              LAMBDA second :
                        IF second.ok
                        THEN return_parsed(second.val, call, json_content)
                        ELSE except_JSONDecodeError(second.msg, raw_content,
                                                    json_content, fallback_to_raw))))

\* JSONParser.parse_lesson_plan
parse_lesson_plan(raw_content) ==
    extract_json_from_response(raw_content, None, TRUE)

\* JSONParser.parse_questions
parse_questions(raw_content, request_metadata) ==
    With(extract_json_from_response(raw_content, request_metadata, TRUE),
         LAMBDA r : IF r.raised THEN r ELSE parse_questions_post(r.value))

KeyRawResponse == <<"r", "a", "w", "_", "r", "e", "s", "p", "o", "n", "s", "e">>
KeyLessonPlan == <<"l", "e", "s", "s", "o", "n", "_", "p", "l", "a", "n">>
KeyClass == <<"c", "l", "a", "s", "s">>
KeyChapters == <<"c", "h", "a", "p", "t", "e", "r", "s">>
KeyBlueprint == <<"b", "l", "u", "e", "p", "r", "i", "n", "t">>
KeyMarksDistribution ==
    <<"m", "a", "r", "k", "s", "D", "i", "s", "t", "r", "i", "b", "u", "t", "i", "o", "n">>
KeyDifficultySplit ==
    <<"d", "i", "f", "f", "i", "c", "u", "l", "t", "y", "S", "p", "l", "i", "t">>
KeySkillsCovered ==
    <<"s", "k", "i", "l", "l", "s", "C", "o", "v", "e", "r", "e", "d">>

\* The text of the names the allocator's output uses as keys.
NameText ==
    ("MCQ" :> <<"M", "C", "Q">>) @@ ("VSA" :> <<"V", "S", "A">>)
        @@ ("SA" :> <<"S", "A">>) @@ ("LA" :> <<"L", "A">>)
        @@ ("CASE" :> <<"C", "A", "S", "E">>)
        @@ ("Easy" :> <<"E", "a", "s", "y">>)
        @@ ("Medium" :> <<"M", "e", "d", "i", "u", "m">>)
        @@ ("Hard" :> <<"H", "a", "r", "d">>)
        @@ ("40%" :> <<"4", "0", "%">>) @@ ("20%" :> <<"2", "0", "%">>)

\* bp["blueprint"] (line 209), as the Python value the parser merges
py_blueprint(blueprint) ==
    LET md == blueprint.marksDistribution
        ds == blueprint.difficultySplit
    IN  PyDict((KeyMarksDistribution :>
                    PyDict([k \in {NameText[c] : c \in DOMAIN md} |->
                            PyInt(md[CHOOSE c \in DOMAIN md : NameText[c] = k])]))
            @@ (KeyDifficultySplit :>
                    PyDict([k \in {NameText[c] : c \in DOMAIN ds} |->
                            PyStr(NameText[ds[CHOOSE c \in DOMAIN ds : NameText[c] = k]])]))
            @@ (KeySkillsCovered :> PyList(blueprint.skillsCovered)))

RECURSIVE join(_, _)
\* ", ".join(chapters)
join(sep, texts) ==
    IF texts = <<>> THEN <<>>
    ELSE IF Len(texts) = 1 THEN texts[1]
    ELSE texts[1] \o sep \o join(sep, Tail(texts))

\* A slip: the metadata carry the marks of the first section as totalMarks.
request_metadata_section_marks(request, bp) ==
    PyDict((KeyClass :> PyStr(request.class_name))
        @@ (KeySubject :> PyStr(request.subject_name))
        @@ (KeyChapters :> PyStr(join(<<",", " ">>, request.chapters)))
        @@ (KeyTotalMarks :> PyInt(bp.blueprint.marksDistribution["MCQ"]))
        @@ (KeyBlueprint :> py_blueprint(bp.blueprint)))

\* request_metadata (lines 204-210)
request_metadata(request, bp) ==
    PyDict((KeyClass :> PyStr(request.class_name))
        @@ (KeySubject :> PyStr(request.subject_name))
        @@ (KeyChapters :> PyStr(join(<<",", " ">>, request.chapters)))
        @@ (KeyTotalMarks :> PyInt(request.total_marks))
        @@ (KeyBlueprint :> py_blueprint(bp.blueprint)))

\* OpenAIHelper.extract_output_text: the first text of the response that is
\* not empty, a ValueError when it has none.
extract_output_text(response) ==
    IF response.kind = "text" THEN Returned(response.text)
    ELSE Raised("ValueError")

\* except Exception as e: ... return False, {}, error_msg
ServiceFailure(exc) == Triple(FALSE, PyDict(EmptyDict), Message("", exc))

\* What a method returns when the call in its try block ended as r.
ServiceReturn(r) ==
    With(r, LAMBDA x : IF x.raised THEN ServiceFailure(x.exc) ELSE x.value)

\* generate_lesson_plan from the upstream response on (lines 80-112)
lesson_plan_result(request, response) ==
    LET raw_content == extract_output_text(response)
    IN  IF raw_content.raised THEN ServiceFailure(raw_content.exc)
        ELSE ServiceReturn(parse_lesson_plan(raw_content.value))

\* generate_questions from the upstream response on (lines 201-244)
questions_result(request, bp, response) ==
    LET raw_content == extract_output_text(response)
    IN  IF raw_content.raised THEN ServiceFailure(raw_content.exc)
        ELSE ServiceReturn(parse_questions(raw_content.value,
                                           request_metadata(request, bp)))

\* generate_knowledge_points from the upstream response on (lines 329-379)
knowledge_points_result(request, response) ==
    LET raw_content == extract_output_text(response)
    IN  IF raw_content.raised THEN ServiceFailure(raw_content.exc)
        ELSE With(extract_json_from_response(raw_content.value, None, TRUE),
                  LAMBDA r :
            IF r.raised THEN ServiceFailure(r.exc)
            ELSE IF r.value.success /\ r.value.data.t = "dict"
                        /\ KeyKnowledgePoints \in DOMAIN r.value.data.v
            THEN With(_post_process_knowledge_points(
                            request.board, request.grade, request.subject,
                            request.chapter, r.value.data.v[KeyKnowledgePoints]),
                      LAMBDA processed_data :
                    IF processed_data.raised
                    THEN ServiceFailure(processed_data.exc)
                    ELSE [r.value EXCEPT !.data = processed_data.value])
            ELSE r.value)

\* The key under which a router hands over the parsed result.
ResultKey(path) ==
    CASE path = "generate_questions" -> KeyQuestions
      [] path = "generate_lesson_plan" -> KeyLessonPlan
      [] path = "generate_knowledge_points" -> KeyKnowledgePoints

\* The handler of a router from the method's return on: the APIResponse.
router_response(path, result) ==
    IF ~result.success
    THEN [success |-> FALSE,
          message |-> "Failed to parse AI response",
          error |-> [t |-> "str", text |-> "JSON parsing error: ",
                     detail |-> result.error],
          data |-> PyDict(KeyRawResponse :> result.data)]
    ELSE [success |-> TRUE,
          message |-> "generated successfully",
          error |-> None,
          data |-> PyDict(ResultKey(path) :> result.data)]

\* except Exception as e in a router: the method itself raised.
router_exception(exc) ==
    [success |-> FALSE, message |-> "Failed to generate",
     error |-> Message("", exc), data |-> None]

(***************************************************************************)
(* Student questions: OpenAIService.get_student_answer and its handler     *)
(* (src/routers/student.py).  A conversation is a sequence of messages,    *)
(* each with a role and a content.                                         *)
(***************************************************************************)

\* PromptTemplates.get_student_tutor_system_prompt: the two contexts put
\* into STUDENT_TUTOR_SYSTEM, empty for a name that is None or empty.
get_student_tutor_system_prompt(subject_name, class_name) ==
    [template |-> "STUDENT_TUTOR_SYSTEM",
     subject_context |-> IF Truthy(subject_name)
                         THEN <<"Subject context: ">> \o subject_name.v ELSE <<>>,
     class_context |-> IF Truthy(class_name)
                       THEN <<"Class/Grade: ">> \o class_name.v ELSE <<>>]

\* history_dict of the handler (lines 29-35): the messages of the request,
\* none when conversation_history is None or empty.
history_dict(request) ==
    IF request.conversation_history.t = "none" THEN <<>>
    ELSE [i \in 1 .. Len(request.conversation_history.v) |->
            [role |-> request.conversation_history.v[i].role,
             content |-> request.conversation_history.v[i].content]]

\* A slip: the new question is put before the history.
student_messages_question_first(question, conversation_history, subject_name, class_name) ==
    << [role |-> "system",
        content |-> get_student_tutor_system_prompt(subject_name, class_name)],
       [role |-> "user", content |-> question] >>
        \o conversation_history

\* messages of get_student_answer (lines 253-260)
student_messages(question, conversation_history, subject_name, class_name) ==
    << [role |-> "system",
        content |-> get_student_tutor_system_prompt(subject_name, class_name)] >>
        \o [i \in 1 .. Len(conversation_history) |->
                [role |-> conversation_history[i].role,
                 content |-> conversation_history[i].content]]
        \o << [role |-> "user", content |-> question] >>

\* except Exception of get_student_answer: return False, "", error_msg
StudentFailure(exc) == Triple(FALSE, PyStr(<<>>), Message("", exc))

\* get_student_answer from the upstream response on (lines 270-308): the
\* text of the first item that has a content, a ValueError without one.
student_answer_result(request, response) ==
    IF response.kind = "text" /\ Truthy(response.text)
    THEN Triple(TRUE, response.text, None)
    ELSE StudentFailure("ValueError")

\* The handler of src/routers/student.py from the method's return on
\* (lines 45-75); conversation_id is the uuid4 drawn.
student_response(request, result, conversation_id) ==
    IF ~result.success
    THEN [success |-> FALSE,
          message |-> "Failed to get answer from AI service",
          error |-> result.error,
          data |-> None]
    ELSE [success |-> TRUE,
          message |-> "Answer generated successfully",
          error |-> None,
          data |-> [response |->
                [answer |-> result.data.v,
                 conversation_id |-> conversation_id,
                 updated_history |->
                    (IF request.conversation_history.t = "none" THEN <<>>
                     ELSE request.conversation_history.v)
                    \o << [role |-> "user", content |-> request.question],
                          [role |-> "assistant", content |-> result.data.v] >>]]]

(***************************************************************************)
(* The requests drawn and what the upstream call does with them.           *)
(***************************************************************************)

\* The longest conversation history drawn.
MaxTurns == 2

ConversationMessages ==
    { [role |-> "user", content |-> <<"H", "i">>],
      [role |-> "assistant", content |-> <<"H", "e", "l", "l", "o">>],
      [role |-> "user", content |-> <<>>] }

ConversationHistories ==
    {None} \cup
    { [t |-> "list", v |-> h] :
        h \in UNION {[1 .. n -> ConversationMessages] : n \in 0 .. MaxTurns} }

StudentRequests ==
    [question : { <<"W", "h", "y", "?">> },
     subject_name : {None, PyStr(<<"M", "a", "t", "h", "s">>)},
     class_name : {None},
     conversation_history : ConversationHistories]

\* The values uuid.uuid4() gives.
ConversationIds == {"uuid-1", "uuid-2"}

QuestionRequests ==
    {[class_name |-> <<"1", "0">>,
      subject_name |-> <<"M", "a", "t", "h", "s">>,
      chapters |-> << <<"H", "e", "a", "t">>, <<"L", "i", "g", "h", "t">> >>,
      total_marks |-> t] : t \in {10, 15, 40}}
    \cup
    {[class_name |-> <<"1", "0">>,
      subject_name |-> <<"M", "a", "t", "h", "s">>,
      chapters |-> << <<"H", "e", "a", "t">> >>,
      total_marks |-> 1, exp10 |-> 400]}

LessonPlanRequests ==
    {[subject_name |-> <<"M", "a", "t", "h", "s">>,
      class_name |-> <<"1", "0">>,
      chapter_title |-> <<"H", "e", "a", "t">>,
      number_of_sessions |-> n,
      default_session_duration |-> <<"4", "0">>] : n \in {1, 3}}

KnowledgePointRequests ==
    [board : { <<"C", "B", "S", "E">> }, grade : Grades,
     subject : RequestSubjects,
     chapter : { <<"H", "e", "a", "t">>,
                 <<"C", "e", "l", "l", " ", "C", "y", "c", "l", "e">> }]

Paths ==
    {"generate_questions", "generate_lesson_plan", "generate_knowledge_points",
     "get_student_answer"}

Requests(path) ==
    CASE path = "generate_questions" -> QuestionRequests
      [] path = "generate_lesson_plan" -> LessonPlanRequests
      [] path = "generate_knowledge_points" -> KnowledgePointRequests
      [] path = "get_student_answer" -> StudentRequests

\* What the model answers: papers, lists of knowledge points, documents of
\* other shapes.
UpstreamDocuments ==
    { Paper(PyList(<<Section(PyList(<<Question(PyInt(2), None),
                                      Question(PyInt(3), None)>>), PyInt(9))>>)),
      PyDict((KeySections :> PyList(<<>>)) @@ (KeyClass :> PyStr(<<"9">>))),
      Paper(PyInt(5)),
      Paper(PyList(<<PyInt(5)>>)),
      Paper(PyList(<<Section(PyList(<<Question(PyStr(<<"2">>), None)>>), None)>>)),
      PyDict(KeyKnowledgePoints :> PyList(<<>>)),
      PyDict(KeyKnowledgePoints :> PyInt(5)),
      PyDict(KeyKnowledgePoints :> PyList(<<PyInt(5)>>)),
      PyDict(KeyKnowledgePoints :> None),
      PyDict(<<"a">> :> PyInt(1)),
      PyList(<<PyInt(1)>>), PyInt(5), None }
    \cup {PyDict(KeyKnowledgePoints :> l) : l \in KnowledgePointLists}

UpstreamTexts ==
    {json_dumps(v) : v \in UpstreamDocuments}
        \cup {Wrap("fenced json", json_dumps(v)) :
                v \in {PyDict(<<"a">> :> PyInt(1)), Paper(PyInt(5))}}
        \cup { <<"n", "o", "t", " ", "j", "s", "o", "n", " ", "{", "{", "{">>,
               <<"{">>, <<" ", "\n">>, <<"[", "1", ",", "]">>,
               <<"{", "\"", "a", "\"", ":", "1", ",", "\n", "}">>,
               <<"S", "o", "r", "r", "y", ".">> }

\* The responses of the upstream call that returns: with a text, or
\* without any.
Responses ==
    {[kind |-> "text", text |-> PyStr(x)] : x \in UpstreamTexts}
        \cup {[kind |-> "no text"]}

\* The exceptions of the upstream call that except Exception catches.
UpstreamErrors == {"APIError", "APITimeoutError"}

NoService ==
    [bp |-> None, prompt |-> None, messages |-> None,
     upstream |-> [kind |-> "pending"],
     invoked |-> <<>>, request_metadata |-> None, result |-> None]

InitService ==
    /\ pc = "request"
    /\ op \in Paths
    /\ args \in Requests(op)
    /\ ret = None
    /\ prev = NoCall
    /\ locals = NoService
    /\ origin = NoOrigin

\* The method's result for the response the upstream call returned.
service_result(path, request, bp, response) ==
    CASE path = "generate_questions" -> questions_result(request, bp, response)
      [] path = "generate_lesson_plan" -> lesson_plan_result(request, response)
      [] path = "generate_knowledge_points" ->
            knowledge_points_result(request, response)
      [] path = "get_student_answer" -> student_answer_result(request, response)

\* What the method returns from its except Exception block.
service_failure(path, exc) ==
    IF path = "get_student_answer" THEN StudentFailure(exc)
    ELSE ServiceFailure(exc)

\* The answers of the handler of the path to the result of the method.
handler_responses(path, request, result) ==
    IF path = "get_student_answer"
    THEN {student_response(request, result, id) : id \in ConversationIds}
    ELSE {router_response(path, result)}

\* A slip: the counts of the first two sections change places in the prompt.
get_questions_prompt_swapped(request, allocation) ==
    [class_name |-> request.class_name,
     subject_name |-> request.subject_name,
     chapters_text |-> join(<<",", " ">>, request.chapters),
     total_marks |-> request.total_marks,
     countA |-> allocation["B"], countB |-> allocation["A"],
     countC |-> allocation["C"], countD |-> allocation["D"],
     countE |-> allocation["E"]]

\* PromptTemplates.get_questions_prompt: the values written into the
\* template of the prompt.
get_questions_prompt(request, allocation) ==
    [class_name |-> request.class_name,
     subject_name |-> request.subject_name,
     chapters_text |-> join(<<",", " ">>, request.chapters),
     total_marks |-> request.total_marks,
     countA |-> allocation["A"], countB |-> allocation["B"],
     countC |-> allocation["C"], countD |-> allocation["D"],
     countE |-> allocation["E"]]

\* The handler calls the method, which runs to its await of the upstream
\* call: generate_questions calls the allocator first (line 183), outside
\* its try block, and an exception of the allocator reaches the handler;
\* the prompt is written from the allocation it returned.
Request ==
    /\ pc = "request"
    /\ op \in Paths
    /\ IF op = "generate_questions"
       THEN IF int_times_float_overflows(args)
            THEN /\ locals' = [locals EXCEPT !.invoked = Append(@, "allocator")]
                 /\ ret' = router_exception("OverflowError")
                 /\ pc' = "responded"
            ELSE /\ \E bp \in {allocate_marks_and_generate_blueprint(args.total_marks)} :
                    locals' = [locals EXCEPT
                        !.invoked = Append(@, "allocator"),
                        !.bp = bp,
                        !.prompt = get_questions_prompt(args, bp.questions_per_section)]
                 /\ pc' = "awaiting"
                 /\ UNCHANGED ret
       ELSE IF op = "get_student_answer"
       THEN /\ locals' = [locals EXCEPT !.messages =
                    student_messages(args.question, history_dict(args),
                                     args.subject_name, args.class_name)]
            /\ pc' = "awaiting"
            /\ UNCHANGED ret
       ELSE pc' = "awaiting" /\ UNCHANGED <<ret, locals>>
    /\ UNCHANGED <<op, args, prev, origin>>

\* The upstream call returns a response: the method normalizes its text and
\* returns, and the handler answers.
UpstreamReturns ==
    /\ pc = "awaiting"
    /\ \E response \in Responses :
        \E result \in {service_result(op, args, locals.bp, response)} :
            /\ locals' = [locals EXCEPT
                    !.upstream = response,
                    !.invoked = IF response.kind = "text"
                                        /\ op # "get_student_answer"
                                THEN Append(@, "normalizer") ELSE @,
                    !.request_metadata =
                        IF response.kind = "text" /\ op = "generate_questions"
                        THEN request_metadata(args, locals.bp) ELSE @,
                    !.result = result]
            /\ ret' \in handler_responses(op, args, result)
    /\ pc' = "responded"
    /\ UNCHANGED <<op, args, prev, origin>>

\* A slip: the handler of the exception hands its message to the normalizer.
UpstreamFails_and_parses ==
    /\ pc = "awaiting"
    /\ \E e \in UpstreamErrors :
        LET result == ServiceReturn(extract_json_from_response(
                            PyStr(<<"e", "r", "r", "o", "r">>), None, TRUE))
        IN  /\ locals' = [locals EXCEPT
                    !.upstream = [kind |-> "raised", exc |-> e],
                    !.invoked = Append(@, "normalizer"),
                    !.result = result]
            /\ ret' = router_response(op, result)
    /\ pc' = "responded"
    /\ UNCHANGED <<op, args, prev, origin>>

\* The upstream call raises, a timeout included: except Exception of the
\* method returns (False, {}, message), and the handler answers.
UpstreamFails ==
    /\ pc = "awaiting"
    /\ \E e \in UpstreamErrors :
        LET result == service_failure(op, e)
        IN  /\ locals' = [locals EXCEPT
                    !.upstream = [kind |-> "raised", exc |-> e],
                    !.result = result]
            /\ ret' \in handler_responses(op, args, result)
    /\ pc' = "responded"
    /\ UNCHANGED <<op, args, prev, origin>>

\* The request is cancelled while the method awaits: CancelledError is no
\* Exception, and passes the handlers of the method and of the router.
UpstreamCancelled ==
    /\ pc = "awaiting"
    /\ locals' = [locals EXCEPT !.upstream = [kind |-> "cancelled"]]
    /\ ret' = Raised("CancelledError")
    /\ pc' = "cancelled"
    /\ UNCHANGED <<op, args, prev, origin>>

NextService == Request \/ UpstreamReturns \/ UpstreamFails \/ UpstreamCancelled

SpecService == InitService /\ [][NextService]_vars

(***************************************************************************)
(* The five methods of OpenAIService with the timing log.  Each method     *)
(* builds its prompt, awaits the upstream call inside a try block, and     *)
(* writes to openai_timing_logger before it returns or in its except       *)
(* Exception block.                                                        *)
(***************************************************************************)

Methods ==
    Paths \cup {"generate_detailed_session_content"}

\* A key that the dict session_data does not hold.
Missing == [t |-> "missing"]

\* session_data.get(key, default): field is the value under the key.
dict_get(field, default) == IF field = Missing THEN default ELSE field

SessionContentRequests ==
    [session_data :
        { [title |-> PyStr(<<"H", "e", "a", "t">>), duration |-> PyStr(<<"4", "0">>),
           summary |-> PyStr(<<"S">>),
           objectives |-> PyList(<< PyStr(<<"o">>) >>)],
          [title |-> Missing, duration |-> Missing,
           summary |-> Missing, objectives |-> Missing] },
     subject_name : { <<"M", "a", "t", "h", "s">> },
     class_name : { <<"1", "0">> }]

MethodRequests(method) ==
    IF method = "generate_detailed_session_content" THEN SessionContentRequests
    ELSE Requests(method)

\* A slip: the record always says that the call succeeded.
log_api_call_as_success(function_name, success, error_message) ==
    [function_name |-> function_name, success |-> TRUE,
     error_message |-> error_message]

\* OpenAITimingLogger.log_api_call: the one record it writes.
log_api_call(function_name, success, error_message) ==
    [function_name |-> function_name, success |-> success,
     error_message |-> error_message]

\* response_metadata of generate_detailed_session_content (lines 135-142)
response_metadata(request) ==
    PyDict((<<"s", "e", "s", "s", "i", "o", "n", "T", "i", "t", "l", "e">>
                :> dict_get(request.session_data.title, None))
        @@ (KeySubject :> PyStr(request.subject_name))
        @@ (KeyClass :> PyStr(request.class_name))
        @@ (<<"d", "u", "r", "a", "t", "i", "o", "n">>
                :> dict_get(request.session_data.duration, None))
        @@ (<<"s", "u", "m", "m", "a", "r", "y">>
                :> dict_get(request.session_data.summary, None))
        @@ (<<"o", "b", "j", "e", "c", "t", "i", "v", "e", "s">>
                :> dict_get(request.session_data.objectives, PyList(<<>>))))

\* What a run of a try block leaves: the record logged and the way the
\* method ends.
Run(record, outcome) == [record |-> record, outcome |-> outcome]

\* except Exception of generate_detailed_session_content (lines 164-178):
\* one record, then the exception again.
session_content_except(exc) ==
    Run(log_api_call("generate_detailed_session_content", FALSE, Message("", exc)),
        Raised(exc))

\* generate_detailed_session_content from the upstream response on
\* (lines 133-178)
session_content_run(request, response) ==
    LET raw_content == extract_output_text(response)
    IN  IF raw_content.raised THEN session_content_except(raw_content.exc)
        ELSE With(extract_json_from_response(raw_content.value,
                                             response_metadata(request), TRUE),
                  LAMBDA r :
            IF r.raised THEN session_content_except(r.exc)
            ELSE Run(log_api_call("generate_detailed_session_content",
                                  r.value.success, r.value.error),
                     Returned(r.value.data)))

\* The try block of the method from the upstream response on: the four
\* methods that return a triple log its success and error, the except
\* block included.
method_run(method, request, bp, response) ==
    IF method = "generate_detailed_session_content"
    THEN session_content_run(request, response)
    ELSE With(service_result(method, request, bp, response), LAMBDA triple :
            Run(log_api_call(method, triple.success, triple.error),
                Returned(triple)))

\* The except Exception block of the method for an exception of the
\* upstream call.
method_except(method, exc) ==
    IF method = "generate_detailed_session_content"
    THEN session_content_except(exc)
    ELSE With(service_failure(method, exc), LAMBDA triple :
            Run(log_api_call(method, FALSE, triple.error), Returned(triple)))

NoMethod ==
    [bp |-> None, messages |-> None, upstream |-> [kind |-> "pending"],
     log |-> <<>>]

InitMethods ==
    /\ pc = "invoked"
    /\ op \in Methods
    /\ args \in MethodRequests(op)
    /\ ret = None
    /\ prev = NoCall
    /\ locals = NoMethod
    /\ origin = NoOrigin

\* The method up to its await: the prompt, for a question paper the
\* allocation (which raises before the try block for an overflow), for a
\* student question the message list.
MethodAwaits ==
    /\ pc = "invoked"
    /\ IF op = "generate_questions"
       THEN IF int_times_float_overflows(args)
            THEN /\ ret' = Raised("OverflowError")
                 /\ pc' = "raised"
                 /\ UNCHANGED locals
            ELSE /\ \E bp \in {allocate_marks_and_generate_blueprint(args.total_marks)} :
                    locals' = [locals EXCEPT !.bp = bp]
                 /\ pc' = "awaiting"
                 /\ UNCHANGED ret
       ELSE IF op = "get_student_answer"
       THEN /\ locals' = [locals EXCEPT !.messages =
                    student_messages(args.question, history_dict(args),
                                     args.subject_name, args.class_name)]
            /\ pc' = "awaiting"
            /\ UNCHANGED ret
       ELSE pc' = "awaiting" /\ UNCHANGED <<ret, locals>>
    /\ UNCHANGED <<op, args, prev, origin>>

\* The upstream call returns: the rest of the try block, or the except
\* block when a line of it raises.
MethodResponse ==
    /\ pc = "awaiting"
    /\ \E response \in Responses :
        \E run \in {method_run(op, args, locals.bp, response)} :
            /\ locals' = [locals EXCEPT
                    !.upstream = response,
                    !.log = Append(@, run.record)]
            /\ ret' = run.outcome
    /\ pc' = "done"
    /\ UNCHANGED <<op, args, prev, origin>>

\* The upstream call raises an Exception: the except block.
MethodUpstreamRaises ==
    /\ pc = "awaiting"
    /\ \E e \in UpstreamErrors :
        \E run \in {method_except(op, e)} :
            /\ locals' = [locals EXCEPT
                    !.upstream = [kind |-> "raised", exc |-> e],
                    !.log = Append(@, run.record)]
            /\ ret' = run.outcome
    /\ pc' = "done"
    /\ UNCHANGED <<op, args, prev, origin>>

\* The awaited call is cancelled: asyncio.CancelledError is a BaseException,
\* except Exception does not catch it and the method raises it.
MethodCancelled ==
    /\ pc = "awaiting"
    /\ locals' = [locals EXCEPT !.upstream = [kind |-> "cancelled"]]
    /\ ret' = Raised("CancelledError")
    /\ pc' = "cancelled"
    /\ UNCHANGED <<op, args, prev, origin>>

NextMethods ==
    MethodAwaits \/ MethodResponse \/ MethodUpstreamRaises \/ MethodCancelled

SpecMethods == InitMethods /\ [][NextMethods]_vars

\* The upstream call returned a text, and the method reports a failure.
NormalizationFailed ==
    /\ pc = "responded"
    /\ locals.upstream.kind = "text"
    /\ ~locals.result.success

\* C16: on a normalization failure in the question-paper, lesson-plan and
\* knowledge-point paths the response has success false, carries an error
\* string, and its data.raw_response is the raw upstream text unchanged.
C16_RawResponseSurfaced ==
    NormalizationFailed =>
        /\ ret.success = FALSE
        /\ ret.error.t = "str"
        /\ ret.data = PyDict(KeyRawResponse :> locals.upstream.text)

\* The upstream call of the request raised or was cancelled.
UpstreamFailed ==
    /\ pc \in {"responded", "cancelled"}
    /\ locals.upstream.kind \in {"raised", "cancelled"}

\* The components invoked for the request.
Invoked == {locals.invoked[i] : i \in DOMAIN locals.invoked}

\* C19, as the spec states it: in every request path, when the upstream call
\* fails (raises, is cancelled, times out) neither the allocator nor the
\* normalizer is invoked for the request.
C19_NoComponentOnFailure ==
    UpstreamFailed => Invoked = {}

\* C19, amended: the normalizer is invoked only for a request whose upstream
\* call returned, never for one whose call raised, timed out or was
\* cancelled; the allocator is invoked in the question-paper path alone,
\* once and before the upstream call, so it has run also when the call fails.
C19_NormalizerOnlyAfterReturn ==
    /\ "normalizer" \in Invoked => locals.upstream.kind = "text"
    /\ UpstreamFailed =>
            locals.invoked = IF op = "generate_questions"
                             THEN <<"allocator">> ELSE <<>>
    /\ (op \in Paths /\ op # "generate_questions") => "allocator" \notin Invoked

\* A question-paper request whose upstream call timed out: the allocator
\* has run, the normalizer has not.
C19_Witness ==
    /\ UpstreamFailed
    /\ op = "generate_questions"
    /\ locals.upstream = [kind |-> "raised", exc |-> "APITimeoutError"]
    /\ locals.invoked = <<"allocator">>
    /\ ret.success = FALSE

\* A request for a question paper that the allocator has served.
QuestionPath == op = "generate_questions" /\ ~int_times_float_overflows(args)

\* C23: in generate_questions the steps occur in the order allocator,
\* prompt construction, upstream call, normalizer, return, and one
\* allocation is used throughout: the five counts written into the prompt
\* are the allocator's final counts for the requested total_marks, and the
\* blueprint attached as request metadata to the normalized result is the
\* blueprint of that same allocation.
C23_OneAllocationInOrder ==
    QuestionPath =>
        LET q == allocate_marks_and_generate_blueprint(args.total_marks)
            md == q.blueprint.marksDistribution
            n == q.questions_per_section
        IN  /\ pc = "request" =>
                    /\ locals.invoked = <<>>
                    /\ locals.prompt = None
                    /\ locals.upstream.kind = "pending"
            /\ pc # "request" =>
                    /\ locals.invoked[1] = "allocator"
                    /\ locals.bp = q
                    /\ locals.prompt.total_marks = args.total_marks
                    /\ << locals.prompt.countA, locals.prompt.countB,
                          locals.prompt.countC, locals.prompt.countD,
                          locals.prompt.countE >>
                            = << n["A"], n["B"], n["C"], n["D"], n["E"] >>
                    /\ md["MCQ"] + md["VSA"] + md["SA"] + md["LA"] + md["CASE"]
                            = args.total_marks
            /\ pc = "awaiting" =>
                    /\ locals.invoked = <<"allocator">>
                    /\ locals.upstream.kind = "pending"
                    /\ locals.request_metadata = None
                    /\ locals.result = None /\ ret = None
            /\ (pc = "responded" /\ locals.upstream.kind = "text") =>
                    /\ locals.invoked = <<"allocator", "normalizer">>
                    /\ locals.request_metadata.v[KeyBlueprint]
                            = py_blueprint(q.blueprint)
                    /\ locals.request_metadata.v[KeyTotalMarks]
                            = PyInt(args.total_marks)
                    /\ locals.result # None /\ ret # None
            /\ "normalizer" \in Invoked => locals.upstream.kind = "text"

\* A paper came back for a budget whose MCQ count the reconciliation moved:
\* the prompt carries the final counts, the metadata the same allocation's
\* blueprint.
C23_Witness ==
    /\ QuestionPath
    /\ pc = "responded"
    /\ locals.upstream.kind = "text"
    /\ locals.result.success
    /\ args.total_marks = 40
    /\ locals.prompt.countA = locals.bp.questions_per_section["A"]
    /\ locals.prompt.countA
            # initial_questions(allocated_marks(args.total_marks))["A"]
    /\ locals.request_metadata.v[KeyBlueprint] = py_blueprint(locals.bp.blueprint)

\* The value the upstream text holds: what the first parse of the candidate
\* gives, or the parse after the cleanup.
ModelValue ==
    LET json_content == extract_candidate(locals.upstream.text.v)
        first == json_loads(json_content)
    IN  IF first.ok THEN first.val
        ELSE json_loads(_clean_json_content(json_content)).val

\* generate_questions returned a paper made from a JSON object of the model.
PaperFromObject ==
    /\ QuestionPath
    /\ pc = "responded"
    /\ locals.upstream.kind = "text"
    /\ locals.result.success
    /\ ModelValue.t = "dict"

\* C26: when generate_questions succeeds with a JSON object from the model,
\* the returned paper's top-level keys class, subject, chapters, totalMarks
\* and blueprint hold the request's values (the chapters joined by ", ",
\* totalMarks the requested total_marks, blueprint the allocator's
\* blueprint) for every such key the model's object does not itself
\* contain; a key the model's object does contain keeps the model's value.
C26_PaperCarriesRequest ==
    PaperFromObject =>
        LET paper == locals.result.data
            requested ==
                (KeyClass :> PyStr(args.class_name))
                @@ (KeySubject :> PyStr(args.subject_name))
                @@ (KeyChapters :> PyStr(join(<<",", " ">>, args.chapters)))
                @@ (KeyTotalMarks :> PyInt(args.total_marks))
                @@ (KeyBlueprint :> py_blueprint(
                        allocate_marks_and_generate_blueprint(
                            args.total_marks).blueprint))
        IN  /\ paper.t = "dict"
            /\ ret.success
            /\ ret.data = PyDict(KeyQuestions :> paper)
            /\ \A k \in DOMAIN requested :
                    /\ k \in DOMAIN paper.v
                    /\ paper.v[k] = IF k \in DOMAIN ModelValue.v
                                    THEN ModelValue.v[k] ELSE requested[k]

\* The model's object has a class of its own and no totalMarks: the paper
\* keeps the model's class and takes the request's totalMarks.
C26_Witness ==
    /\ PaperFromObject
    /\ KeyClass \in DOMAIN ModelValue.v
    /\ locals.result.data.v[KeyClass] = PyStr(<<"9">>)
    /\ PyStr(args.class_name) # PyStr(<<"9">>)
    /\ KeyTotalMarks \notin DOMAIN ModelValue.v
    /\ locals.result.data.v[KeyTotalMarks] = PyInt(args.total_marks)
    /\ args.total_marks = 15

\* The upstream text parses, as it is or after the cleanup.
ModelParses ==
    LET json_content == extract_candidate(locals.upstream.text.v)
    IN  \/ json_loads(json_content).ok
        \/ json_loads(_clean_json_content(json_content)).ok

\* generate_knowledge_points answered on a text that parsed.
KnowledgePointsParsed ==
    /\ op = "generate_knowledge_points"
    /\ pc = "responded"
    /\ locals.upstream.kind = "text"
    /\ ModelParses

\* The context fields and the identifier that post-processing writes.
StampedKeys == {KeyKpId, KeyBoard, KeyGrade, KeySubject, KeyChapter}

\* C27: knowledge-point normalization, applied whenever the parse succeeded
\* and the result is an object containing knowledge_points, stamps every
\* entry with kp_id and with the request's board, grade, subject and
\* chapter, overwriting the values the model supplied under those keys, and
\* returns the entries in their original order and number under the single
\* key knowledge_points; in every other successful case the parsed value is
\* returned unchanged.
C27_EveryEntryStamped ==
    KnowledgePointsParsed =>
        /\ locals.result.success
        /\ IF ModelValue.t = "dict" /\ KeyKnowledgePoints \in DOMAIN ModelValue.v
           THEN LET given == ModelValue.v[KeyKnowledgePoints]
                    data == locals.result.data
                IN  /\ data.t = "dict"
                    /\ DOMAIN data.v = {KeyKnowledgePoints}
                    /\ data.v[KeyKnowledgePoints].t = "list"
                    /\ given.t = "list"
                    /\ Len(data.v[KeyKnowledgePoints].v) = Len(given.v)
                    /\ \A i \in 1 .. Len(given.v) :
                        LET kp == data.v[KeyKnowledgePoints].v[i]
                        IN  /\ kp.t = "dict"
                            /\ DOMAIN kp.v = DOMAIN given.v[i].v \cup StampedKeys
                            /\ kp.v[KeyKpId] = PyStr(_generate_deterministic_kp_id(
                                    args.board, args.grade, args.subject,
                                    args.chapter, i))
                            /\ kp.v[KeyBoard] = PyStr(args.board)
                            /\ kp.v[KeyGrade] = PyInt(args.grade)
                            /\ kp.v[KeySubject] = PyStr(args.subject)
                            /\ kp.v[KeyChapter] = PyStr(args.chapter)
                            /\ \A k \in DOMAIN given.v[i].v \ StampedKeys :
                                    kp.v[k] = given.v[i].v[k]
           ELSE locals.result.data = ModelValue

\* The conversation history a student request supplies.
SuppliedHistory ==
    IF args.conversation_history.t = "none" THEN <<>>
    ELSE args.conversation_history.v

\* C30: for a student question, the message list sent upstream is the
\* system prompt, then the supplied conversation history in its original
\* order, then the new question as the last user message; on success the
\* updated_history returned is the supplied history unchanged and in order,
\* followed by exactly two entries, the user's question and then the
\* assistant's answer; on failure no updated history is returned.
C30_ConversationOrdering ==
    (op = "get_student_answer" /\ pc # "request") =>
        /\ Len(locals.messages) = Len(SuppliedHistory) + 2
        /\ locals.messages[1] =
                [role |-> "system",
                 content |-> get_student_tutor_system_prompt(
                                args.subject_name, args.class_name)]
        /\ \A i \in 1 .. Len(SuppliedHistory) :
                locals.messages[i + 1] = SuppliedHistory[i]
        /\ locals.messages[Len(locals.messages)] =
                [role |-> "user", content |-> args.question]
        /\ (pc = "responded" /\ ret.success) =>
                With(ret.data.response.updated_history, LAMBDA updated :
                    /\ Len(updated) = Len(SuppliedHistory) + 2
                    /\ SubSeq(updated, 1, Len(SuppliedHistory)) = SuppliedHistory
                    /\ updated[Len(updated) - 1] =
                            [role |-> "user", content |-> args.question]
                    /\ updated[Len(updated)] =
                            [role |-> "assistant",
                             content |-> locals.upstream.text.v])
        /\ (pc = "responded" /\ ~ret.success) => ret.data = None

\* A student question with a history of two different messages is answered.
C30_Witness ==
    /\ op = "get_student_answer"
    /\ pc = "responded"
    /\ ret.success
    /\ Len(SuppliedHistory) = 2
    /\ SuppliedHistory[1] # SuppliedHistory[2]
    /\ ret.data.response.answer = locals.upstream.text.v

\* The call in the try block of the method raised: the upstream call, the
\* text extraction (a response without text) or, where the error returned
\* is the text of an exception, the post-processing.
RaisedInTryBlock ==
    \/ locals.upstream.kind \in {"raised", "cancelled", "no text"}
    \/ /\ locals.upstream.kind = "text"
       /\ IF ret.raised THEN TRUE
          ELSE /\ op # "generate_detailed_session_content"
               /\ ~ret.value.success
               /\ ret.value.error.text = ""

\* The outcome the specification gives to an invocation whose try block
\* raised, and the one record in the log.
ErrorOutcomeAsStated ==
    /\ IF op \in {"generate_lesson_plan", "generate_questions",
                  "generate_knowledge_points"}
       THEN /\ ~ret.raised
            /\ ret.value.success = FALSE
            /\ ret.value.data = PyDict(EmptyDict)
            /\ ret.value.error.t = "str"
       ELSE IF op = "get_student_answer"
       THEN /\ ~ret.raised
            /\ ret.value.success = FALSE
            /\ ret.value.data = PyStr(<<>>)
            /\ ret.value.error.t = "str"
       ELSE /\ ret.raised
            /\ ret.exc # "CancelledError"
    /\ Len(locals.log) = 1
    /\ locals.log[1].function_name = op
    /\ locals.log[1].success = FALSE

\* C29 as stated: whenever the upstream call, the text extraction or the
\* post-processing raises inside a method, the three generating methods
\* return (False, {}, message), get_student_answer returns
\* (False, "", message), generate_detailed_session_content raises again
\* after logging, and exactly one timing-log record is written whose
\* success flag equals the outcome.
C29_ErrorOutcomes ==
    (pc \in {"done", "cancelled"} /\ RaisedInTryBlock) => ErrorOutcomeAsStated

\* C29, amended: the stated outcome and the one record hold for every
\* Exception raised in the try block; every finished invocation has written
\* exactly one record, whose success flag is that of the triple returned
\* and is False when the method raises; a cancelled upstream call makes
\* every method raise CancelledError with no record written.
C29_ErrorOutcomesUnlessCancelled ==
    /\ (pc = "done" /\ RaisedInTryBlock) => ErrorOutcomeAsStated
    /\ pc = "done" =>
            /\ Len(locals.log) = 1
            /\ locals.log[1].function_name = op
            /\ IF ret.raised THEN locals.log[1].success = FALSE
               ELSE op # "generate_detailed_session_content" =>
                        locals.log[1].success = ret.value.success
    /\ pc = "cancelled" =>
            /\ ret = Raised("CancelledError")
            /\ locals.log = <<>>

\* The post-processing of a question paper raised a TypeError inside the
\* try block, and the method returned the failure triple with one record.
C29_Witness ==
    /\ pc = "done"
    /\ op = "generate_questions"
    /\ locals.upstream.kind = "text"
    /\ ret = Returned(ServiceFailure("TypeError"))
    /\ locals.log =
            << log_api_call("generate_questions", FALSE, Message("", "TypeError")) >>

\* A cancelled invocation: the method raised and the log is empty.
C29_CancelledWitness ==
    /\ pc = "cancelled"
    /\ ret.raised
    /\ locals.log = <<>>

====
